---------------------------- MODULE Spec2Model ----------------------------
(***************************************************************************)
(* Model of the adaptive anti-detection / challenge-response core of the   *)
(* TikTok browser bot: the throttle (suspicion) state of stealth.py, the   *)
(* challenge detector detect_challenge, the slider solvers of              *)
(* captcha_solver.py and the handler handle_challenge.                     *)
(*                                                                         *)
(* Numbers.  Scores and amounts are Python floats that are multiples of    *)
(* 0.1 at every call site; they are kept here in TENTHS (2.5 -> 25).  The  *)
(* delay multiplier is kept in THOUSANDTHS (4.0 -> 4000).                  *)
(*                                                                         *)
(* Text.  A text is what the code sees after .lower(): a sequence of words *)
(* plus its character length; `needle in text` is a contiguous run of      *)
(* words.                                                                  *)
(***************************************************************************)
EXTENDS Integers, Sequences, FiniteSets, TLC

VARIABLES
    suspicion_score,   \* ThrottleState.suspicion_score, in tenths
    captcha_count,     \* ThrottleState.captcha_count
    rate_limit_count,  \* ThrottleState.rate_limit_count
    lastOp,            \* history: the last throttle call (op, amount, score before)
    bumpDecay,         \* history: a bump(a) directly followed by decay(a)
    pageState,         \* the page as the last detector run observed it
    phaseArg,          \* the phase argument of the current call ("none" for None)
    detected,          \* the last detector run: its result and the probes it evaluated
    pc,                \* where handle_challenge stands ("idle": not running)
    calls,             \* handle_challenge calls made so far
    challenge,         \* handle_challenge's local `challenge`: the first detection
    ret,               \* what the last handle_challenge call returned
    lastErr,           \* the stage in which the step just taken saw a page operation raise
    ptype,             \* attempt_solve_captcha: the puzzle type read from the page text
    solver,            \* the solver that ran last: "rotation", "jigsaw" or "none"
    attempts,          \* the running solver's `attempts` list (fractions, in 1/7200)
    idx,               \* the running solver's loop position in attempts[:cap]
    drags,             \* _human_drag_slider calls made by the solver that ran last
    dismissed,         \* what _try_dismiss_captcha returned
    pause,             \* the backoff pause chosen: "none", "short" or "long"
    fraction,          \* the fraction the running solver dragged to last (NoEstimate: none)
    slider_box,        \* the running solver's `slider_box`: TRUE when the track was found
    callHist,          \* history of the current call: the score and captcha_count at its
                       \* entry, the bumps it made, the page interactions it performed
    trueCalls,         \* history: handle_challenge calls that returned True
    sleep,             \* the last random_sleep: base, multiplier read, duration asked for
    session,           \* run_session: its position, _captcha_hit_this_session, history
    mouse,             \* _human_drag_slider: its position and the pointer events issued
    workers,           \* callers of bump / decay that run side by side: the value each
                       \* has read and not yet written back
    double_score       \* suspicion_score as the IEEE double the interpreter holds, in
                       \* units of 2^-55: hi * 2^28 + lo (followed through clean calls)

throttleVars == <<suspicion_score, captcha_count, rate_limit_count>>

Min(a, b) == IF a <= b THEN a ELSE b
Max(a, b) == IF a >= b THEN a ELSE b

(***************************************************************************)
(* ThrottleState (stealth.py 29-70)                                        *)
(***************************************************************************)
WARN_THRESHOLD == 30
CRITICAL_THRESHOLD == 60
MAX_SCORE == 100

\* largest amount (tenths) handed to bump / decay in the throttle specification
MaxAmount == 26

Amounts == 0..MaxAmount

\* a bump that forgets the upper clamp
bump_noclamp(score, amount) == score + amount

\* ThrottleState.bump: min(score + amount, MAX_SCORE)
bump(score, amount) == Min(score + amount, MAX_SCORE)

\* a decay that takes one tenth too much
decay_toomuch(score, amount) == Max(0, score - amount - 1)

\* ThrottleState.decay: max(0.0, score - amount)
decay(score, amount) == Max(0, score - amount)

\* a multiplier whose middle ramp starts from 1.0 instead of 2.0
delay_multiplier_lowramp(score) ==
    IF score >= CRITICAL_THRESHOLD THEN 4000
    ELSE IF score >= WARN_THRESHOLD THEN 1000 + (score - WARN_THRESHOLD) * 50
    ELSE 1000 + score * 15

\* ThrottleState.delay_multiplier, in thousandths
delay_multiplier(score) ==
    IF score >= CRITICAL_THRESHOLD THEN 4000
    ELSE IF score >= WARN_THRESHOLD THEN 2000 + (score - WARN_THRESHOLD) * 50
    ELSE 1000 + score * 15

\* an is_critical that leaves out the threshold itself
is_critical_strict(score) == score > CRITICAL_THRESHOLD

\* ThrottleState.is_critical
is_critical(score) == score >= CRITICAL_THRESHOLD

(***************************************************************************)
(* The page, as the detector's probes observe it                           *)
(***************************************************************************)
\* a text after .lower(): ok = FALSE when reading it raises
Text(words, len) == [ok |-> TRUE, words |-> words, len |-> len]
TextErr == [ok |-> FALSE, words |-> <<>>, len |-> 0]

\* (a, b): a is a proper prefix of the word b, so a needle ending in a is
\* found where the text has b ("slide" in "slider")
PrefixPairs == { <<"slide", "slider">> }

\* Python's `needle in text`, on words: a contiguous run of the needle's words,
\* the last of which may be the prefix of a longer word of the text
Contains(needle, words) ==
    \E i \in 1..(Len(words) - Len(needle) + 1) :
        /\ \A j \in 1..(Len(needle) - 1) : words[i + j - 1] = needle[j]
        /\ \/ words[i + Len(needle) - 1] = needle[Len(needle)]
           \/ <<needle[Len(needle)], words[i + Len(needle) - 1]>> \in PrefixPairs

\* page.url lowered: its text and which of the searched substrings it contains;
\* ok = FALSE when reading page.url raises
Url(text, tokens) == [ok |-> TRUE, text |-> text, tokens |-> tokens]
UrlErr == [ok |-> FALSE, text |-> "", tokens |-> {}]

Urls ==
    { Url("https://www.tiktok.com/foryou", {}),
      Url("https://www.tiktok.com/captcha/verify", {"captcha"}),
      Url("https://www.tiktok.com/challenge?next=/foryou", {"challenge"}),
      Url("https://www.tiktok.com/@someone", {"/@"}),
      Url("https://www.tiktok.com/search/user?q=/@someone", {"/@", "search"}),
      UrlErr }

PlainUrl == Url("https://www.tiktok.com/foryou", {})
ProfileUrl == Url("https://www.tiktok.com/@someone", {"/@"})

\* lengths (characters) of the texts a container may hold
TextLens == {100, 499, 500, 600}

SliderPrompt == <<"drag", "the", "slider", "to", "fit", "the", "puzzle">>
LoginPrompt == <<"log", "in", "to", "follow", "creators">>
RateLimitNote == <<"too", "many", "requests">>
PuzzleWord == <<"solve", "this", "puzzle">>
PlainWords == <<"for", "you", "following", "explore">>

\* the selector lists of the code, in their order
SHADOW_SELECTORS ==
    << "[class*=\"secsdk-captcha\"]", "[class*=\"captcha\"]", "#captcha_slide_button",
       "button[aria-disabled=\"true\"][class*=\"secsdk\"]", "[class*=\"drag-icon\"]",
       "[class*=\"puzzle\"]" >>

CAPTCHA_SELECTORS ==
    << "[data-e2e=\"captcha-verify-container\"]", "[ID=\"captcha_container\"]",
       "iframe[src*=\"captcha\"]", "[class*=\"tiktok-verify\"]",
       "[class*=\"secsdk-captcha\"]", "[class*=\"secsdk\"]",
       "div[role=\"dialog\"][class*=\"Verify\"]", "[class*=\"Verify\"] [class*=\"modal\"]",
       "button[class*=\"captcha\"]", "button[class*=\"secsdk\"]", "[class*=\"puzzle\"]",
       "[class*=\"drag-icon\"]", "#captcha_slide_button", "button#captcha_slide_button",
       "[class*=\"secsdk-captcha-drag-icon\"]", "button[class*=\"secsdk-captcha\"]" >>

LEGITIMATE_DIALOG_SELECTORS ==
    << "[data-e2e=\"login-button\"]", "[data-e2e=\"signup-button\"]",
       "button:has-text(\"Log in\")", "button:has-text(\"Sign up\")" >>

\* a keyword list that lacks "puzzle"
captcha_keywords_no_puzzle == <<"slider", "drag", "verify", "captcha", "fit", "rotate">>

captcha_keywords == <<"slider", "puzzle", "drag", "verify", "captcha", "fit", "rotate">>

CAPTCHA_INDICATORS ==
    << "verify you are human", "verify your identity", "security verification",
       "slide to verify", "drag the slider", "fit the puzzle", "fix the puzzle",
       "captcha", "unusual activity", "too many requests", "try again later",
       "temporarily unavailable", "access denied", "rate limit", "select 2 objects",
       "select the image" >>

\* the words of each indicator, in the order of CAPTCHA_INDICATORS
IndicatorWords ==
    << <<"verify", "you", "are", "human">>, <<"verify", "your", "identity">>,
       <<"security", "verification">>, <<"slide", "to", "verify">>,
       <<"drag", "the", "slider">>, <<"fit", "the", "puzzle">>,
       <<"fix", "the", "puzzle">>, <<"captcha">>, <<"unusual", "activity">>,
       <<"too", "many", "requests">>, <<"try", "again", "later">>,
       <<"temporarily", "unavailable">>, <<"access", "denied">>, <<"rate", "limit">>,
       <<"select", "2", "objects">>, <<"select", "the", "image">> >>

\* len(text) < 500 in the text check
TEXT_LIMIT == 500

\* a missing container
Absent == [exists |-> FALSE, text |-> TextErr]
Present(text) == [exists |-> TRUE, text |-> text]

\* a page with no challenge signal at all: the feed, no dialog, a long body
CleanPage ==
    [ url |-> PlainUrl,
      shadow |-> 0,            \* 0: the shadow-DOM query returns null; -1: it raises;
                               \* i >= 1: it finds SHADOW_SELECTORS[i]
      dialog |-> "hidden",     \* dialog.is_visible: "hidden", "visible" or "err"
      legitVisible |-> {},     \* indexes of LEGITIMATE_DIALOG_SELECTORS that are visible
      legitErr |-> {},         \* indexes whose is_visible raises
      dialogText |-> Text(<<>>, 0),   \* dialog.inner_text().lower()
      dialogHtml |-> Text(<<>>, 0),   \* dialog.evaluate(outerHTML)[:500].lower()
      selVisible |-> {},       \* indexes of CAPTCHA_SELECTORS that are visible
      selErr |-> {},           \* indexes whose is_visible raises
      errorPage |-> Absent,    \* the [data-e2e="error-page"] container
      body |-> Present(Text(PlainWords, 600)) ]

(***************************************************************************)
(* detect_challenge (stealth.py 503-667)                                   *)
(***************************************************************************)
\* the detector's result: None, or a descriptor "<kind>:<detail>"
NoSignal == [kind |-> "none", detail |-> ""]
Signal(kind, detail) == [kind |-> kind, detail |-> detail]

\* a URL check that looks for "captcha" only
url_matches_captcha_only(url) == "captcha" \in url.tokens

\* `"captcha" in url or "challenge" in url`
url_matches(url) == "captcha" \in url.tokens \/ "challenge" \in url.tokens

\* _detect_captcha_in_shadow_dom: the selector found, None when the query
\* returns null or raises
_detect_captcha_in_shadow_dom(page) ==
    IF page.shadow >= 1
    THEN Signal("shadow_dom", SHADOW_SELECTORS[page.shadow])
    ELSE NoSignal

\* a whitelist loop that never finds a legitimate marker
is_legitimate_never(page) == FALSE

\* the loop over LEGITIMATE_DIALOG_SELECTORS: a raising probe is skipped, the
\* first visible marker makes the dialog legitimate
is_legitimate(page) ==
    \E i \in 1..Len(LEGITIMATE_DIALOG_SELECTORS) :
        i \in page.legitVisible /\ i \notin page.legitErr

\* the loop over captcha_keywords from position i: the first keyword that is in
\* the dialog's text or in its markup
RECURSIVE keyword_loop(_, _)
keyword_loop(page, i) ==
    IF i > Len(captcha_keywords) THEN NoSignal
    ELSE IF \/ Contains(<<captcha_keywords[i]>>, page.dialogText.words)
            \/ Contains(<<captcha_keywords[i]>>, page.dialogHtml.words)
         THEN Signal("dialog_captcha", captcha_keywords[i])
         ELSE keyword_loop(page, i + 1)

\* the dialog check (the body of `if phase != "upload"`): nothing when the
\* dialog is hidden, when is_visible raises, when a legitimate marker is
\* visible, or when reading the dialog's text or markup raises
dialog_check(page) ==
    IF page.dialog # "visible" THEN NoSignal
    ELSE IF is_legitimate(page) THEN NoSignal
    ELSE IF ~page.dialogText.ok \/ ~page.dialogHtml.ok THEN NoSignal
    ELSE IF keyword_loop(page, 1) # NoSignal THEN keyword_loop(page, 1)
    ELSE IF "/@" \in page.url.tokens /\ "search" \notin page.url.tokens
         THEN Signal("unexpected_dialog_on_profile", "")
         ELSE NoSignal

\* the loop over CAPTCHA_SELECTORS from position i: a raising probe is skipped,
\* the first visible selector is the signal
RECURSIVE dom_loop(_, _)
dom_loop(page, i) ==
    IF i > Len(CAPTCHA_SELECTORS) THEN NoSignal
    ELSE IF i \in page.selErr THEN dom_loop(page, i + 1)
    ELSE IF i \in page.selVisible THEN Signal("captcha_element", CAPTCHA_SELECTORS[i])
    ELSE dom_loop(page, i + 1)

\* the loop over CAPTCHA_INDICATORS from position i: the first indicator in the text
RECURSIVE indicator_loop(_, _)
indicator_loop(words, i) ==
    IF i > Len(CAPTCHA_INDICATORS) THEN 0
    ELSE IF Contains(IndicatorWords[i], words) THEN i
    ELSE indicator_loop(words, i + 1)

\* a length test that lets a text of exactly TEXT_LIMIT characters through
short_enough_inclusive(len) == len <= TEXT_LIMIT

\* `len(text) < 500`
short_enough(len) == len < TEXT_LIMIT

\* the three containers of the text check, in order: the error page, the
\* dialog (element_exists: it is visible), the body
text_containers(page) ==
    << page.errorPage,
       [exists |-> page.dialog = "visible", text |-> page.dialogText],
       page.body >>

\* the loop over the containers from position k: a missing container is
\* skipped; a text that cannot be read raises out of the whole loop; only a
\* text shorter than TEXT_LIMIT gives a signal
RECURSIVE text_check(_, _)
text_check(page, k) ==
    IF k > Len(text_containers(page)) THEN NoSignal
    ELSE LET c == text_containers(page)[k]
             hit == indicator_loop(c.text.words, 1)
         IN  IF ~c.exists THEN text_check(page, k + 1)
             ELSE IF ~c.text.ok THEN NoSignal
             ELSE IF hit # 0 /\ short_enough(c.text.len)
                  THEN Signal("text_match", CAPTCHA_INDICATORS[hit])
                  ELSE text_check(page, k + 1)

\* a detector that runs the dialog check in every phase
detect_run_any_phase(page, phase) ==
    IF ~page.url.ok THEN [sig |-> NoSignal, probes |-> <<"url">>]
    ELSE IF url_matches(page.url)
    THEN [sig |-> Signal("challenge_url", page.url.text), probes |-> <<"url">>]
    ELSE IF _detect_captcha_in_shadow_dom(page) # NoSignal
    THEN [sig |-> _detect_captcha_in_shadow_dom(page), probes |-> <<"url", "shadow">>]
    ELSE LET dlg == dialog_check(page)
             pre == <<"url", "shadow", "dialog">>
         IN  IF dlg # NoSignal THEN [sig |-> dlg, probes |-> pre]
             ELSE IF dom_loop(page, 1) # NoSignal
             THEN [sig |-> dom_loop(page, 1), probes |-> Append(pre, "dom")]
             ELSE [sig |-> text_check(page, 1), probes |-> pre \o <<"dom", "text">>]

\* a detector that looks at the CAPTCHA selectors before the dialog
detect_run_dom_first(page, phase) ==
    IF ~page.url.ok THEN [sig |-> NoSignal, probes |-> <<"url">>]
    ELSE IF url_matches(page.url)
    THEN [sig |-> Signal("challenge_url", page.url.text), probes |-> <<"url">>]
    ELSE IF _detect_captcha_in_shadow_dom(page) # NoSignal
    THEN [sig |-> _detect_captcha_in_shadow_dom(page), probes |-> <<"url", "shadow">>]
    ELSE IF dom_loop(page, 1) # NoSignal
    THEN [sig |-> dom_loop(page, 1), probes |-> <<"url", "shadow", "dom">>]
    ELSE LET dlg == IF phase # "upload" THEN dialog_check(page) ELSE NoSignal
             pre == IF phase # "upload" THEN <<"url", "shadow", "dom", "dialog">>
                    ELSE <<"url", "shadow", "dom">>
         IN  IF dlg # NoSignal THEN [sig |-> dlg, probes |-> pre]
             ELSE [sig |-> text_check(page, 1), probes |-> Append(pre, "text")]

\* detect_challenge(page, phase), with the probe groups it evaluated, in order.
\* A page.url that raises ends the call in the outer except with None.
detect_run(page, phase) ==
    IF ~page.url.ok THEN [sig |-> NoSignal, probes |-> <<"url">>]
    ELSE IF url_matches(page.url)
    THEN [sig |-> Signal("challenge_url", page.url.text), probes |-> <<"url">>]
    ELSE IF _detect_captcha_in_shadow_dom(page) # NoSignal
    THEN [sig |-> _detect_captcha_in_shadow_dom(page), probes |-> <<"url", "shadow">>]
    ELSE LET dlg == IF phase # "upload" THEN dialog_check(page) ELSE NoSignal
             pre == IF phase # "upload" THEN <<"url", "shadow", "dialog">>
                    ELSE <<"url", "shadow">>
         IN  IF dlg # NoSignal THEN [sig |-> dlg, probes |-> pre]
             ELSE IF dom_loop(page, 1) # NoSignal
             THEN [sig |-> dom_loop(page, 1), probes |-> Append(pre, "dom")]
             ELSE [sig |-> text_check(page, 1), probes |-> pre \o <<"dom", "text">>]

detect_challenge(page, phase) == detect_run(page, phase).sig

(***************************************************************************)
(* The pages the detector is run on: families that vary one group of       *)
(* observations each around the clean page                                 *)
(***************************************************************************)
Phases == {"none", "feed", "upload"}

\* the phases handle_challenge is called with in the handler's specification
HandlerPhases == {"none", "upload"}

\* every URL, with and without a shadow-DOM hit and a dialog that says "puzzle"
PagesUrl ==
    { [CleanPage EXCEPT !.url = u, !.shadow = s, !.dialog = d,
                        !.dialogText = Text(PuzzleWord, 100)] :
        u \in Urls, s \in {0, 2}, d \in {"hidden", "visible"} }

\* every outcome of the shadow-DOM query
PagesShadow ==
    { [CleanPage EXCEPT !.shadow = s, !.dialog = d,
                        !.dialogText = Text(SliderPrompt, 100), !.selVisible = v] :
        s \in -1..Len(SHADOW_SELECTORS), d \in {"hidden", "visible"}, v \in {{}, {11}} }

\* (visible markers, raising markers) of the whitelist loop
LegitCases == { <<{}, {}>>, <<{1}, {}>>, <<{3}, {1, 2}>>, <<{1}, {1}>>, <<{}, {1, 2, 3, 4}>> }

DialogTexts ==
    { Text(w, 100) : w \in {<<>>, LoginPrompt, PuzzleWord, SliderPrompt, RateLimitNote} }
        \cup { Text(PuzzleWord, 600), TextErr }

DialogHtmls ==
    { Text(<<"div", "role", "dialog">>, 500),
      Text(<<"div", "class", "captcha", "verify">>, 500), TextErr }

\* dialogs: visible or raising, whitelisted or not, on the feed, a profile and a search
PagesDialog ==
    { [CleanPage EXCEPT !.url = u, !.dialog = d, !.legitVisible = l[1], !.legitErr = l[2],
                        !.dialogText = t, !.dialogHtml = h] :
        u \in { x \in Urls : x.ok /\ ~url_matches(x) }, d \in {"visible", "err"},
        l \in LegitCases, t \in DialogTexts, h \in DialogHtmls }

\* the CAPTCHA selectors: which are visible, which raise
PagesDom ==
    { [CleanPage EXCEPT !.dialog = d, !.legitVisible = {1},
                        !.dialogText = Text(LoginPrompt, 100),
                        !.selVisible = v, !.selErr = e, !.body = b] :
        d \in {"hidden", "visible"}, v \in {{}, {1}, {11}, {6, 7}, {16}},
        e \in {{}, {1}, {6}, 1..Len(CAPTCHA_SELECTORS)},
        b \in {CleanPage.body, Present(Text(RateLimitNote, 100))} }

ContainerTexts ==
    { Text(w, n) : w \in {PlainWords, RateLimitNote}, n \in TextLens } \cup { TextErr }

\* the text check: the three containers, each missing, unreadable, or holding a
\* text with or without an indicator phrase, of every length
PagesText ==
    { [CleanPage EXCEPT !.dialog = d[1], !.legitVisible = {1}, !.dialogText = d[2],
                        !.errorPage = ep, !.body = b] :
        d \in { <<"hidden", Text(<<>>, 0)>> } \cup { <<"visible", t>> : t \in ContainerTexts },
        ep \in { Absent } \cup { Present(t) : t \in ContainerTexts },
        b \in { Absent } \cup { Present(t) : t \in ContainerTexts } }

Pages == PagesUrl \cup PagesShadow \cup PagesDialog \cup PagesDom \cup PagesText

NotRun == [sig |-> NoSignal, probes |-> <<>>]

\* one call detect_challenge(page, phase) on the page as it is
RunDetect ==
    /\ detected = NotRun
    /\ detected' = detect_run(pageState, phaseArg)
    /\ UNCHANGED <<pageState, phaseArg>>

NoOp == [op |-> "none", amount |-> 0, pre |-> 0]

NoPair == [armed |-> FALSE, amount |-> 0, pre |-> 0, post |-> 0]

\* a caller invokes get_throttle().bump(amount)
Bump(amount) ==
    /\ suspicion_score' = bump(suspicion_score, amount)
    /\ lastOp' = [op |-> "bump", amount |-> amount, pre |-> suspicion_score]
    /\ bumpDecay' = NoPair
    /\ UNCHANGED <<captcha_count, rate_limit_count>>

\* a caller invokes get_throttle().decay(amount); when the call before it was
\* bump(the same amount), bumpDecay keeps the score before that bump and the
\* score after this decay
Decay(amount) ==
    /\ suspicion_score' = decay(suspicion_score, amount)
    /\ lastOp' = [op |-> "decay", amount |-> amount, pre |-> suspicion_score]
    /\ bumpDecay' =
          IF lastOp.op = "bump" /\ lastOp.amount = amount
          THEN [armed |-> TRUE, amount |-> amount, pre |-> lastOp.pre,
                post |-> suspicion_score']
          ELSE NoPair
    /\ UNCHANGED <<captcha_count, rate_limit_count>>

(***************************************************************************)
(* captcha_solver.py: the attempt lists and the puzzle type                *)
(***************************************************************************)
\* fractions of the track are kept in 1/7200: angle / 360 and every delta and
\* fallback position of the code are whole numbers of these
FRAC_ONE == 7200

NoEstimate == -1

\* solve_rotation_captcha's deltas 0.05, -0.05, 0.10, -0.10, 0.15, -0.15
ROTATION_DELTAS == <<360, -360, 720, -720, 1080, -1080>>

\* its fallback positions 0.0, 0.25, 0.5, 0.75, 0.12, 0.37, 0.62, 0.87
ROTATION_FALLBACK == <<0, 1800, 3600, 5400, 864, 2664, 4464, 6264>>

\* solve_jigsaw_captcha's deltas 0.03, -0.03, 0.06, -0.06, 0.10, -0.10
JIGSAW_DELTAS == <<216, -216, 432, -432, 720, -720>>

\* its fallback positions 0.45, 0.55, 0.65, 0.35, 0.75, 0.50
JIGSAW_FALLBACK == <<3240, 3960, 4680, 2520, 5400, 3600>>

\* the clamp max(0.05, min(0.95, .)) of the jigsaw adjustments
JIGSAW_LOW == 360
JIGSAW_HIGH == 6840

\* attempts[:6] and attempts[:5]
ROTATION_CAP == 6
JIGSAW_CAP == 5

\* the estimates the image analysis may give: angle / 360 for angles 90 and 345
\* degrees; a gap at 50% and 97% of the image width
RotationEstimates == {1800, 6900}
JigsawEstimates == {3600, 6984}

\* an attempt list whose adjusted fractions are not wrapped into [0, 1)
rotation_attempts_nowrap(estimated_fraction) ==
    IF estimated_fraction # NoEstimate
    THEN <<estimated_fraction>> \o
         [k \in 1..Len(ROTATION_DELTAS) |-> estimated_fraction + ROTATION_DELTAS[k]]
    ELSE ROTATION_FALLBACK

\* the rotation solver's attempt list
rotation_attempts(estimated_fraction) ==
    IF estimated_fraction # NoEstimate
    THEN <<estimated_fraction>> \o
         [k \in 1..Len(ROTATION_DELTAS) |->
             (estimated_fraction + ROTATION_DELTAS[k]) % FRAC_ONE]
    ELSE ROTATION_FALLBACK

\* an attempt list whose adjusted fractions are not clamped into [0.05, 0.95]
jigsaw_attempts_noclamp(estimated_fraction) ==
    IF estimated_fraction # NoEstimate
    THEN <<estimated_fraction>> \o
         [k \in 1..Len(JIGSAW_DELTAS) |-> estimated_fraction + JIGSAW_DELTAS[k]]
    ELSE JIGSAW_FALLBACK

\* the jigsaw solver's attempt list
jigsaw_attempts(estimated_fraction) ==
    IF estimated_fraction # NoEstimate
    THEN <<estimated_fraction>> \o
         [k \in 1..Len(JIGSAW_DELTAS) |->
             Max(JIGSAW_LOW, Min(JIGSAW_HIGH, estimated_fraction + JIGSAW_DELTAS[k]))]
    ELSE JIGSAW_FALLBACK

\* a loop over the whole attempt list, without the [:6] / [:5] slice
attempt_cap_unsliced(which) == 8

\* the slice of the attempt list the solver's loop runs over
attempt_cap(which) == IF which = "rotation" THEN ROTATION_CAP ELSE JIGSAW_CAP

\* the number of iterations of the solver's loop
loop_length(which, list) == Min(attempt_cap(which), Len(list))

\* attempt_solve_captcha's reading of the body text: the rotation keywords are
\* tested first; a text that cannot be read is ""
puzzle_type(text) ==
    LET words == IF text.ok THEN text.words ELSE <<>>
    IN  IF Contains(<<"fit", "the", "puzzle">>, words) \/ Contains(<<"rotate">>, words)
        THEN "rotation"
        ELSE IF \/ Contains(<<"drag", "the", "puzzle", "piece">>, words)
                \/ Contains(<<"slide">>, words)
             THEN "jigsaw"
             ELSE "unknown"

\* the body texts attempt_solve_captcha may read
SolverTexts ==
    { Text(SliderPrompt, 100), Text(<<"drag", "the", "puzzle", "piece", "into", "place">>, 100),
      Text(<<"select", "2", "objects">>, 100), TextErr }

(***************************************************************************)
(* handle_challenge (stealth.py 670-830)                                   *)
(***************************************************************************)
\* handle_challenge calls in one run of the model
MaxCalls == 3

\* `"captcha" in challenge.lower()` on the descriptor "<kind>:<detail>"
descriptor_has_captcha(sig) ==
    \/ sig.kind \in {"dialog_captcha", "captcha_element"}
    \/ sig.kind = "challenge_url" /\ \E u \in Urls : u.text = sig.detail /\ "captcha" \in u.tokens
    \/ sig.kind = "shadow_dom" /\ sig.detail \in {SHADOW_SELECTORS[1], SHADOW_SELECTORS[2],
                                                   SHADOW_SELECTORS[3]}
    \/ sig.kind = "text_match" /\ sig.detail = "captcha"

\* the pages the handler's detector runs see, one for each kind of result: a
\* clean page, an unreadable URL, a challenge URL, a shadow-DOM widget, a
\* dialog with the slider prompt, a rate-limit note in a short body
HandlerPages ==
    { CleanPage,
      [CleanPage EXCEPT !.url = UrlErr],
      [CleanPage EXCEPT !.url = Url("https://www.tiktok.com/challenge?next=/foryou", {"challenge"})],
      [CleanPage EXCEPT !.shadow = 2],
      [CleanPage EXCEPT !.dialog = "visible", !.dialogText = Text(SliderPrompt, 100)],
      [CleanPage EXCEPT !.body = Present(Text(RateLimitNote, 100))] }

\* where control goes when a page operation raises in a stage of
\* handle_challenge, if the goto had no try around it
on_error_goto_unguarded(stage) ==
    CASE stage = "diag" -> "detect"
      [] stage = "capture" -> "bump"
      [] stage = "solve" -> "dismiss"
      [] stage = "dismiss" -> "backoff"
      [] OTHER -> "raised"

\* where control goes when a page operation raises in a stage of
\* handle_challenge: every stage sits in a try whose except continues with
\* the next step; "raised" would be an exception that reaches the caller
on_error(stage) ==
    CASE stage = "diag" -> "detect"
      [] stage = "capture" -> "bump"
      [] stage = "solve" -> "dismiss"
      [] stage = "dismiss" -> "backoff"
      [] stage = "goto" -> "done"
      [] OTHER -> "raised"

\* no call is running: nothing recorded
NoCall ==
    [score |-> 0, captcha_count |-> 0, bumps |-> 0, effects |-> {}, exit |-> "none",
     pending |-> FALSE, lost |-> "none"]

\* no random_sleep was made yet
NoSleep == [called |-> FALSE, base |-> 0, page |-> FALSE, mult |-> 0, duration |-> 0]

\* no track box
NoBox == [x |-> 0, width |-> 0]

\* _human_drag_slider has not been called: no slider_box and fraction handed
\* over, no pointer event issued, `steps` not drawn yet
NoDrag == [pc |-> "idle", steps |-> 0, events |-> <<>>, box |-> NoBox, fraction |-> 0]

\* the double 0.0
Zero == [hi |-> 0, lo |-> 0]

\* no caller is inside bump or decay
NoWorkers == [mode |-> "single", start |-> 0, lock |-> 0, w |-> <<>>]

\* no session is running
NoSession ==
    [pc |-> "idle", _captcha_hit_this_session |-> FALSE, task |-> 1, i |-> 0,
     challenge_seen |-> FALSE, started_after |-> {}, visits_after |-> FALSE, n |-> 0]

HandlerInit ==
    /\ suspicion_score = 0
    /\ captcha_count = 0
    /\ rate_limit_count = 0
    /\ lastOp = NoOp
    /\ bumpDecay = NoPair
    /\ pageState = CleanPage
    /\ phaseArg = "none"
    /\ detected = NotRun
    /\ pc = "idle"
    /\ calls = 0
    /\ challenge = NoSignal
    /\ ret = "none"
    /\ lastErr = "none"
    /\ ptype = "none"
    /\ solver = "none"
    /\ attempts = <<>>
    /\ idx = 0
    /\ drags = 0
    /\ dismissed = FALSE
    /\ pause = "none"
    /\ fraction = NoEstimate
    /\ slider_box = FALSE
    /\ callHist = NoCall
    /\ trueCalls = 0
    /\ sleep = NoSleep
    /\ session = NoSession
    /\ mouse = NoDrag
    /\ workers = NoWorkers
    /\ double_score = Zero

\* the variables no step of handle_challenge touches
otherVars ==
    <<rate_limit_count, lastOp, bumpDecay, pageState, detected, sleep, session, mouse,
      workers, double_score>>

\* the running solver's locals
solverVars == <<solver, attempts, idx, drags>>

\* the solver's last drag target and its slider_box
dragVars == <<fraction, slider_box>>

\* the histories of the calls
histVars == <<callHist, trueCalls>>

\* a caller invokes handle_challenge(page, phase)
Call(ph) ==
    /\ pc = "idle"
    /\ calls < MaxCalls
    /\ pc' = "diag"
    /\ calls' = calls + 1
    /\ phaseArg' = ph
    /\ ret' = "none"
    /\ lastErr' = "none"
    /\ callHist' = [score |-> suspicion_score, captcha_count |-> captcha_count,
                    bumps |-> 0, effects |-> {}, exit |-> "none", pending |-> FALSE,
                    lost |-> "none"]
    /\ UNCHANGED <<otherVars, suspicion_score, captcha_count, challenge, ptype, solverVars,
                   dragVars, dismissed, pause, trueCalls>>

\* the diagnostic block: page.url and page.evaluate, in a try
Diag(ok) ==
    /\ pc = "diag"
    /\ pc' = IF ok THEN "detect" ELSE on_error("diag")
    /\ lastErr' = IF ok THEN "none" ELSE "diag"
    /\ UNCHANGED <<otherVars, suspicion_score, captcha_count, phaseArg, calls, challenge,
                   ret, ptype, solverVars, dragVars, dismissed, pause, histVars>>

\* a first detection that returns True for a clean page
DetectClean_no_decay(p) ==
    /\ pc = "detect"
    /\ detect_challenge(p, phaseArg) = NoSignal
    /\ challenge' = NoSignal
    /\ ret' = "false"
    /\ pc' = "done"
    /\ lastErr' = "none"
    /\ UNCHANGED <<otherVars, suspicion_score, captcha_count, phaseArg, calls, ptype,
                   solverVars, dragVars, dismissed, pause, histVars>>

DetectClean_returns_true(p) ==
    /\ pc = "detect"
    /\ detect_challenge(p, phaseArg) = NoSignal
    /\ challenge' = NoSignal
    /\ suspicion_score' = decay(suspicion_score, 2)
    /\ ret' = "true"
    /\ pc' = "done"
    /\ lastErr' = "none"
    /\ UNCHANGED <<otherVars, captcha_count, phaseArg, calls, ptype, solverVars, dragVars,
                   dismissed, pause, histVars>>

\* challenge = detect_challenge(page, phase) is None: decay(0.2), return False
DetectClean(p) ==
    /\ pc = "detect"
    /\ detect_challenge(p, phaseArg) = NoSignal
    /\ challenge' = NoSignal
    /\ suspicion_score' = decay(suspicion_score, 2)
    /\ ret' = "false"
    /\ pc' = "done"
    /\ lastErr' = "none"
    /\ UNCHANGED <<otherVars, captcha_count, phaseArg, calls, ptype, solverVars, dragVars,
                   dismissed, pause, histVars>>

\* challenge = detect_challenge(page, phase) is a descriptor
DetectChallenge(p) ==
    /\ pc = "detect"
    /\ detect_challenge(p, phaseArg) # NoSignal
    /\ challenge' = detect_challenge(p, phaseArg)
    /\ pc' = "capture"
    /\ lastErr' = "none"
    /\ UNCHANGED <<otherVars, suspicion_score, captcha_count, phaseArg, calls, ret, ptype,
                   solverVars, dragVars, dismissed, pause, histVars>>

\* the optional debug capture (screenshot and markup), in a try
Capture(capture_debug, ok) ==
    /\ pc = "capture"
    /\ pc' = IF capture_debug /\ ~ok THEN on_error("capture") ELSE "bump"
    /\ lastErr' = IF capture_debug /\ ~ok THEN "capture" ELSE "none"
    /\ UNCHANGED <<otherVars, suspicion_score, captcha_count, phaseArg, calls, challenge,
                   ret, ptype, solverVars, dragVars, dismissed, pause, histVars>>

\* a handler that counts the rate-limit signals
BumpStep_counts_rate_limits ==
    /\ pc = "bump"
    /\ suspicion_score' = bump(suspicion_score, 25)
    /\ captcha_count' = IF descriptor_has_captcha(challenge)
                        THEN captcha_count + 1 ELSE captcha_count
    /\ rate_limit_count' = IF challenge.kind = "text_match"
                           THEN rate_limit_count + 1 ELSE rate_limit_count
    /\ pc' = "solve"
    /\ lastErr' = "none"
    /\ callHist' = [callHist EXCEPT !.bumps = @ + 1]
    /\ UNCHANGED <<lastOp, bumpDecay, pageState, detected, sleep, session, mouse, workers,
                   double_score, phaseArg, calls, challenge, ret, ptype, solverVars,
                   dragVars, dismissed, pause, trueCalls>>

BumpStep_counts_all ==
    /\ pc = "bump"
    /\ suspicion_score' = bump(suspicion_score, 25)
    /\ captcha_count' = captcha_count + 1
    /\ pc' = "solve"
    /\ lastErr' = "none"
    /\ callHist' = [callHist EXCEPT !.bumps = @ + 1]
    /\ UNCHANGED <<otherVars, phaseArg, calls, challenge, ret, ptype, solverVars, dragVars,
                   dismissed, pause, trueCalls>>

\* _throttle.bump(2.5, reason=challenge); the captcha counter
BumpStep ==
    /\ pc = "bump"
    /\ suspicion_score' = bump(suspicion_score, 25)
    /\ captcha_count' = IF descriptor_has_captcha(challenge)
                        THEN captcha_count + 1 ELSE captcha_count
    /\ pc' = "solve"
    /\ lastErr' = "none"
    /\ callHist' = [callHist EXCEPT !.bumps = @ + 1]
    /\ UNCHANGED <<otherVars, phaseArg, calls, challenge, ret, ptype, solverVars, dragVars,
                   dismissed, pause, trueCalls>>

SolveStart_decays(t) ==
    /\ pc = "solve"
    /\ ptype' = puzzle_type(t)
    /\ solver' = IF puzzle_type(t) = "jigsaw" THEN "jigsaw" ELSE "rotation"
    /\ attempts' = <<>>
    /\ idx' = 0
    /\ drags' = 0
    /\ lastErr' = IF t.ok THEN "none" ELSE "text"
    /\ pc' = "track"
    /\ suspicion_score' = decay(suspicion_score, 5)
    /\ UNCHANGED <<otherVars, captcha_count, phaseArg, calls, challenge,
                   ret, dragVars, dismissed, pause, histVars>>

\* attempt_solve_captcha reads the body text and picks the solver
SolveStart(t) ==
    /\ pc = "solve"
    /\ ptype' = puzzle_type(t)
    /\ solver' = IF puzzle_type(t) = "jigsaw" THEN "jigsaw" ELSE "rotation"
    /\ attempts' = <<>>
    /\ idx' = 0
    /\ drags' = 0
    /\ lastErr' = IF t.ok THEN "none" ELSE "text"
    /\ pc' = "track"
    /\ UNCHANGED <<otherVars, suspicion_score, captcha_count, phaseArg, calls, challenge,
                   ret, dragVars, dismissed, pause, histVars>>

\* an entry point that tries the jigsaw solver after any failed rotation solve
SolverFails_always_second ==
    /\ attempts' = <<>>
    /\ idx' = 0
    /\ fraction' = NoEstimate
    /\ IF solver = "rotation"
       THEN solver' = "jigsaw" /\ drags' = 0 /\ pc' = "track"
       ELSE pc' = "dismiss" /\ UNCHANGED <<solver, drags>>

\* the running solver returned False: with an unknown type the jigsaw solver
\* runs after the rotation solver (its drags counted from 0); otherwise
\* attempt_solve_captcha returns False
SolverFails ==
    /\ attempts' = <<>>
    /\ idx' = 0
    /\ fraction' = NoEstimate
    /\ IF ptype = "unknown" /\ solver = "rotation"
       THEN solver' = "jigsaw" /\ drags' = 0 /\ pc' = "track"
       ELSE pc' = "dismiss" /\ UNCHANGED <<solver, drags>>

\* slider_box = _find_slider_track(page) at the solver's start
FindTrack(found) ==
    /\ pc = "track"
    /\ slider_box' = found
    /\ IF found
       THEN pc' = "estimate" /\ UNCHANGED <<solverVars, fraction>>
       ELSE SolverFails
    /\ lastErr' = "none"
    /\ UNCHANGED <<otherVars, suspicion_score, captcha_count, phaseArg, calls, challenge,
                   ret, ptype, dismissed, pause, histVars>>

\* the image analysis (none when Pillow or the image is missing or it raises)
\* and the attempt list built from it
Estimate(e) ==
    /\ pc = "estimate"
    /\ e \in {NoEstimate} \cup (IF solver = "rotation" THEN RotationEstimates
                                ELSE JigsawEstimates)
    /\ attempts' = IF solver = "rotation" THEN rotation_attempts(e) ELSE jigsaw_attempts(e)
    /\ idx' = 1
    /\ pc' = "drag"
    /\ lastErr' = "none"
    /\ UNCHANGED <<otherVars, suspicion_score, captcha_count, phaseArg, calls, challenge,
                   ret, ptype, solver, drags, dragVars, dismissed, pause, histVars>>

Drag_unverified(ok) ==
    /\ pc = "drag"
    /\ drags' = drags + 1
    /\ fraction' = IF ok THEN attempts[idx] ELSE NoEstimate
    /\ pc' = IF ok THEN "refind" ELSE on_error("solve")
    /\ lastErr' = IF ok THEN "none" ELSE "solve"
    /\ attempts' = IF ok THEN attempts ELSE <<>>
    /\ idx' = IF ok THEN idx ELSE 0
    /\ callHist' = [callHist EXCEPT !.effects = @ \cup {"drag"}, !.pending = ok]
    /\ UNCHANGED <<otherVars, suspicion_score, captcha_count, phaseArg, calls, challenge,
                   ret, ptype, solver, slider_box, dismissed, pause, trueCalls>>

\* _human_drag_slider(page, slider_box, attempts[idx]); a mouse operation that
\* raises ends attempt_solve_captcha in its except, with False
Drag(ok) ==
    /\ pc = "drag"
    /\ drags' = drags + 1
    /\ fraction' = IF ok THEN attempts[idx] ELSE NoEstimate
    /\ pc' = IF ok THEN "verify" ELSE on_error("solve")
    /\ lastErr' = IF ok THEN "none" ELSE "solve"
    /\ attempts' = IF ok THEN attempts ELSE <<>>
    /\ idx' = IF ok THEN idx ELSE 0
    /\ callHist' = [callHist EXCEPT !.effects = @ \cup {"drag"}, !.pending = ok]
    /\ UNCHANGED <<otherVars, suspicion_score, captcha_count, phaseArg, calls, challenge,
                   ret, ptype, solver, slider_box, dismissed, pause, trueCalls>>

VerifyClean_small_decay(p) ==
    /\ pc = "verify"
    /\ detect_challenge(p, "none") = NoSignal
    /\ suspicion_score' = decay(suspicion_score, 10)
    /\ ret' = "true"
    /\ trueCalls' = trueCalls + 1
    /\ pc' = "done"
    /\ lastErr' = "none"
    /\ callHist' = [callHist EXCEPT !.exit = "solved", !.pending = FALSE]
    /\ UNCHANGED <<otherVars, captcha_count, phaseArg, calls, challenge, ptype, solverVars,
                   dragVars, dismissed, pause>>

\* detect_challenge(page) after the drag is None: the solver returns True,
\* handle_challenge decays by 1.5 and returns True
VerifyClean(p) ==
    /\ pc = "verify"
    /\ detect_challenge(p, "none") = NoSignal
    /\ suspicion_score' = decay(suspicion_score, 15)
    /\ ret' = "true"
    /\ trueCalls' = trueCalls + 1
    /\ pc' = "done"
    /\ lastErr' = "none"
    /\ callHist' = [callHist EXCEPT !.exit = "solved", !.pending = FALSE]
    /\ UNCHANGED <<otherVars, captcha_count, phaseArg, calls, challenge, ptype, solverVars,
                   dragVars, dismissed, pause>>

\* detect_challenge(page) after the drag still reports a challenge
VerifyChallenge_bumps(p) ==
    /\ pc = "verify"
    /\ detect_challenge(p, "none") # NoSignal
    /\ suspicion_score' = bump(suspicion_score, 25)
    /\ pc' = "refind"
    /\ lastErr' = "none"
    /\ callHist' = [callHist EXCEPT !.bumps = @ + 1, !.pending = FALSE]
    /\ UNCHANGED <<otherVars, captcha_count, phaseArg, calls, challenge, ret, ptype,
                   solverVars, dragVars, dismissed, pause, trueCalls>>

VerifyChallenge(p) ==
    /\ pc = "verify"
    /\ detect_challenge(p, "none") # NoSignal
    /\ pc' = "refind"
    /\ lastErr' = "none"
    /\ callHist' = [callHist EXCEPT !.pending = FALSE]
    /\ UNCHANGED <<otherVars, suspicion_score, captcha_count, phaseArg, calls, challenge,
                   ret, ptype, solverVars, dragVars, dismissed, pause, trueCalls>>

\* a loop that repeats the same attempt as long as the track is found
Refind_keeps_guessing(found) ==
    /\ pc = "refind"
    /\ slider_box' = found
    /\ IF idx < loop_length(solver, attempts)
       THEN idx' = idx + 1 /\ pc' = "drag" /\ UNCHANGED <<solver, attempts, drags, fraction>>
       ELSE SolverFails
    /\ lastErr' = "none"
    /\ callHist' = [callHist EXCEPT !.lost = IF found THEN @ ELSE solver]
    /\ UNCHANGED <<otherVars, suspicion_score, captcha_count, phaseArg, calls, challenge,
                   ret, ptype, dismissed, pause, trueCalls>>

Refind_same_attempt(found) ==
    /\ pc = "refind"
    /\ slider_box' = found
    /\ IF found
       THEN pc' = "drag" /\ UNCHANGED <<solver, attempts, idx, drags, fraction>>
       ELSE SolverFails
    /\ lastErr' = "none"
    /\ UNCHANGED <<otherVars, suspicion_score, captcha_count, phaseArg, calls, challenge,
                   ret, ptype, dismissed, pause, histVars>>

\* slider_box = _find_slider_track(page) after a failed verification: without
\* a track the solver returns False; with one the loop goes on to its next
\* attempt, or ends after the last one
Refind(found) ==
    /\ pc = "refind"
    /\ slider_box' = found
    /\ IF found /\ idx < loop_length(solver, attempts)
       THEN idx' = idx + 1 /\ pc' = "drag" /\ UNCHANGED <<solver, attempts, drags, fraction>>
       ELSE SolverFails
    /\ lastErr' = "none"
    /\ callHist' = [callHist EXCEPT !.lost = IF found THEN @ ELSE solver]
    /\ UNCHANGED <<otherVars, suspicion_score, captcha_count, phaseArg, calls, challenge,
                   ret, ptype, dismissed, pause, trueCalls>>

\* _try_dismiss_captcha: a close control is clicked, or Escape is pressed, or
\* every probe and the key press raise and it returns False
Dismiss(how, raisedSome) ==
    /\ pc = "dismiss"
    /\ how = "fail" => raisedSome
    /\ dismissed' = (how # "fail")
    /\ pc' = IF how # "fail" THEN "recheck" ELSE on_error("dismiss")
    /\ lastErr' = IF raisedSome THEN "dismiss" ELSE "none"
    /\ slider_box' = FALSE
    /\ callHist' = [callHist EXCEPT !.effects =
                       @ \cup {"dismiss"} \cup (CASE how = "click" -> {"click"}
                                                  [] how = "escape" -> {"key"}
                                                  [] OTHER -> {}),
                                    !.lost = "none"]
    /\ UNCHANGED <<otherVars, suspicion_score, captcha_count, phaseArg, calls, challenge,
                   ret, ptype, solverVars, fraction, pause, trueCalls>>

\* a re-check that takes back more than the bump added
RecheckClean_big_decay(p) ==
    /\ pc = "recheck"
    /\ detect_challenge(p, "none") = NoSignal
    /\ suspicion_score' = decay(suspicion_score, 30)
    /\ ret' = "true"
    /\ trueCalls' = trueCalls + 1
    /\ pc' = "done"
    /\ lastErr' = "none"
    /\ callHist' = [callHist EXCEPT !.exit = "dismissed"]
    /\ UNCHANGED <<otherVars, captcha_count, phaseArg, calls, challenge, ptype, solverVars,
                   dragVars, dismissed, pause>>

RecheckClean_then_backoff(p) ==
    /\ pc = "recheck"
    /\ detect_challenge(p, "none") = NoSignal
    /\ suspicion_score' = decay(suspicion_score, 10)
    /\ pc' = "backoff"
    /\ lastErr' = "none"
    /\ callHist' = [callHist EXCEPT !.exit = "dismissed"]
    /\ UNCHANGED <<otherVars, captcha_count, phaseArg, calls, challenge, ret, ptype,
                   solverVars, dragVars, dismissed, pause, trueCalls>>

\* after a dismissal detect_challenge(page) is None: decay(1.0), return True
RecheckClean(p) ==
    /\ pc = "recheck"
    /\ detect_challenge(p, "none") = NoSignal
    /\ suspicion_score' = decay(suspicion_score, 10)
    /\ ret' = "true"
    /\ trueCalls' = trueCalls + 1
    /\ pc' = "done"
    /\ lastErr' = "none"
    /\ callHist' = [callHist EXCEPT !.exit = "dismissed"]
    /\ UNCHANGED <<otherVars, captcha_count, phaseArg, calls, challenge, ptype, solverVars,
                   dragVars, dismissed, pause>>

\* a handler that goes back to the solver when the dismissal did not help
RecheckChallenge_solves_again(p) ==
    /\ pc = "recheck"
    /\ detect_challenge(p, "none") # NoSignal
    /\ pc' = "solve"
    /\ lastErr' = "none"
    /\ UNCHANGED <<otherVars, suspicion_score, captcha_count, phaseArg, calls, challenge,
                   ret, ptype, solverVars, dragVars, dismissed, pause, histVars>>

\* after a dismissal the challenge is still there
RecheckChallenge(p) ==
    /\ pc = "recheck"
    /\ detect_challenge(p, "none") # NoSignal
    /\ pc' = "backoff"
    /\ lastErr' = "none"
    /\ UNCHANGED <<otherVars, suspicion_score, captcha_count, phaseArg, calls, challenge,
                   ret, ptype, solverVars, dragVars, dismissed, pause, histVars>>

\* the range (seconds) pause_secs is drawn from
pause_range(kind) ==
    IF kind = "long" THEN [lo |-> 180, hi |-> 360] ELSE [lo |-> 60, hi |-> 180]

\* the backoff pause: 180-360 s when is_critical, else 60-180 s
Backoff ==
    /\ pc = "backoff"
    /\ pause' = IF is_critical(suspicion_score) THEN "long" ELSE "short"
    /\ pc' = "goto"
    /\ lastErr' = "none"
    /\ callHist' = [callHist EXCEPT !.effects = @ \cup {"pause"}]
    /\ UNCHANGED <<otherVars, suspicion_score, captcha_count, phaseArg, calls, challenge,
                   ret, ptype, solverVars, dragVars, dismissed, trueCalls>>

Goto_decays(ok) ==
    /\ pc = "goto"
    /\ pc' = IF ok THEN "done" ELSE on_error("goto")
    /\ ret' = IF ok \/ on_error("goto") = "done" THEN "true" ELSE "none"
    /\ trueCalls' = IF ok \/ on_error("goto") = "done" THEN trueCalls + 1 ELSE trueCalls
    /\ lastErr' = IF ok THEN "none" ELSE "goto"
    /\ suspicion_score' = decay(suspicion_score, 10)
    /\ callHist' = [callHist EXCEPT !.effects = @ \cup {"goto"}]
    /\ UNCHANGED <<otherVars, captcha_count, phaseArg, calls, challenge,
                   ptype, solverVars, dragVars, dismissed, pause>>

\* page.goto(home), in a try; then return True
Goto(ok) ==
    /\ pc = "goto"
    /\ pc' = IF ok THEN "done" ELSE on_error("goto")
    /\ ret' = IF ok \/ on_error("goto") = "done" THEN "true" ELSE "none"
    /\ trueCalls' = IF ok \/ on_error("goto") = "done" THEN trueCalls + 1 ELSE trueCalls
    /\ lastErr' = IF ok THEN "none" ELSE "goto"
    /\ callHist' = [callHist EXCEPT !.effects = @ \cup {"goto"}]
    /\ UNCHANGED <<otherVars, suspicion_score, captcha_count, phaseArg, calls, challenge,
                   ptype, solverVars, dragVars, dismissed, pause>>

\* the call has returned and its locals are gone; the caller goes on with
\* the returned value
Return ==
    /\ pc = "done"
    /\ pc' = "idle"
    /\ phaseArg' = "none"
    /\ challenge' = NoSignal
    /\ lastErr' = "none"
    /\ ptype' = "none"
    /\ solver' = "none"
    /\ attempts' = <<>>
    /\ idx' = 0
    /\ drags' = 0
    /\ dismissed' = FALSE
    /\ pause' = "none"
    /\ fraction' = NoEstimate
    /\ slider_box' = FALSE
    /\ callHist' = NoCall
    /\ UNCHANGED <<otherVars, suspicion_score, captcha_count, calls, ret, trueCalls>>

Next ==
    \/ \E ph \in HandlerPhases : Call(ph)
    \/ \E ok \in BOOLEAN : Diag(ok)
    \/ \E p \in HandlerPages : DetectClean(p)
    \/ \E p \in HandlerPages : DetectChallenge(p)
    \/ \E c \in BOOLEAN, ok \in BOOLEAN : Capture(c, ok)
    \/ BumpStep
    \/ \E t \in SolverTexts : SolveStart(t)
    \/ \E found \in BOOLEAN : FindTrack(found)
    \/ \E e \in {NoEstimate} \cup RotationEstimates \cup JigsawEstimates : Estimate(e)
    \/ \E ok \in BOOLEAN : Drag(ok)
    \/ \E p \in HandlerPages : VerifyClean(p)
    \/ \E p \in HandlerPages : VerifyChallenge(p)
    \/ \E found \in BOOLEAN : Refind(found)
    \/ \E how \in {"click", "escape", "fail"}, r \in BOOLEAN : Dismiss(how, r)
    \/ \E p \in HandlerPages : RecheckClean(p)
    \/ \E p \in HandlerPages : RecheckChallenge(p)
    \/ Backoff
    \/ \E ok \in BOOLEAN : Goto(ok)
    \/ Return

vars == <<suspicion_score, captcha_count, rate_limit_count, lastOp, bumpDecay, pageState,
          phaseArg, detected, pc, calls, challenge, ret, lastErr, ptype, solver, attempts,
          idx, drags, dismissed, pause, fraction, slider_box, callHist, trueCalls, sleep,
          session, mouse, workers, double_score>>

Spec == HandlerInit /\ [][Next]_vars

(***************************************************************************)
(* The throttle alone: any sequence of bump and decay calls                *)
(***************************************************************************)
handlerVars == <<pc, calls, challenge, ret, lastErr, ptype, solver, attempts, idx, drags,
                 dismissed, pause, fraction, slider_box, callHist, trueCalls>>

ThrottleNext ==
    \/ \E a \in Amounts : Bump(a) /\ UNCHANGED <<pageState, phaseArg, detected, handlerVars,
                                                 sleep, session, mouse, workers, double_score>>
    \/ \E a \in Amounts : Decay(a) /\ UNCHANGED <<pageState, phaseArg, detected, handlerVars,
                                                  sleep, session, mouse, workers, double_score>>

SpecThrottle == HandlerInit /\ [][ThrottleNext]_vars

(***************************************************************************)
(* The detector alone: one run on every page of every family               *)
(***************************************************************************)
DetectInit ==
    /\ suspicion_score = 0
    /\ captcha_count = 0
    /\ rate_limit_count = 0
    /\ lastOp = NoOp
    /\ bumpDecay = NoPair
    /\ pageState \in Pages
    /\ phaseArg \in Phases
    /\ detected = NotRun
    /\ pc = "idle"
    /\ calls = 0
    /\ challenge = NoSignal
    /\ ret = "none"
    /\ lastErr = "none"
    /\ ptype = "none"
    /\ solver = "none"
    /\ attempts = <<>>
    /\ idx = 0
    /\ drags = 0
    /\ dismissed = FALSE
    /\ pause = "none"
    /\ fraction = NoEstimate
    /\ slider_box = FALSE
    /\ callHist = NoCall
    /\ trueCalls = 0
    /\ sleep = NoSleep
    /\ session = NoSession
    /\ mouse = NoDrag
    /\ workers = NoWorkers
    /\ double_score = Zero

DetectNext ==
    RunDetect /\ UNCHANGED <<throttleVars, lastOp, bumpDecay, handlerVars, sleep, session,
                            mouse, workers, double_score>>

SpecDetect == DetectInit /\ [][DetectNext]_vars

(***************************************************************************)
(* random_sleep (bot_utils.py 56-80) and idle_sleep (stealth.py 200-249)   *)
(***************************************************************************)
\* base durations (seconds) drawn from [min_seconds, max_seconds]: the ends of
\* DELAY_SHORT, DELAY_MEDIUM and DELAY_LONG
SleepBases == {2, 5, 18}

\* idle_sleep(page, duration): `duration *= throttle.delay_multiplier`, then the
\* loop runs until that time has passed. duration in 1/1000 s, result in 1/1000000 s
idle_sleep(duration, score) == duration * delay_multiplier(score)

\* random_sleep(min_seconds, max_seconds, page): delay = base_delay *
\* delay_multiplier, handed to idle_sleep when a page is given, to time.sleep
\* when not. base_delay in seconds, result in 1/1000000 s
random_sleep(base_delay, withPage, score) ==
    LET delay == base_delay * delay_multiplier(score)
    IN  IF withPage THEN idle_sleep(delay, score) ELSE delay * 1000

\* a caller invokes random_sleep
RandomSleep(base_delay, withPage) ==
    /\ sleep' = [called |-> TRUE, base |-> base_delay, page |-> withPage,
                 mult |-> delay_multiplier(suspicion_score),
                 duration |-> random_sleep(base_delay, withPage, suspicion_score)]
    /\ UNCHANGED <<throttleVars, lastOp, bumpDecay, pageState, phaseArg, detected,
                   handlerVars, session, mouse, workers, double_score>>

\* any score the bumps and decays of the callers reach (every tenth of 0..10)
SleepInit ==
    /\ suspicion_score \in 0..MAX_SCORE
    /\ captcha_count = 0
    /\ rate_limit_count = 0
    /\ lastOp = NoOp
    /\ bumpDecay = NoPair
    /\ pageState = CleanPage
    /\ phaseArg = "none"
    /\ detected = NotRun
    /\ pc = "idle"
    /\ calls = 0
    /\ challenge = NoSignal
    /\ ret = "none"
    /\ lastErr = "none"
    /\ ptype = "none"
    /\ solver = "none"
    /\ attempts = <<>>
    /\ idx = 0
    /\ drags = 0
    /\ dismissed = FALSE
    /\ pause = "none"
    /\ fraction = NoEstimate
    /\ slider_box = FALSE
    /\ callHist = NoCall
    /\ trueCalls = 0
    /\ sleep = NoSleep
    /\ session = NoSession
    /\ mouse = NoDrag
    /\ workers = NoWorkers
    /\ double_score = Zero

SleepNext == \E b \in SleepBases, withPage \in BOOLEAN : RandomSleep(b, withPage)

SpecSleep == SleepInit /\ [][SleepNext]_vars

(***************************************************************************)
(* run_session (tiktok_bot.py 1898-1957) and the tasks it runs             *)
(***************************************************************************)
\* what one handle_challenge call did: "none" is the clean page (False); with
\* the other three a challenge was detected and the call returned True
Outcomes == {"none", "solved", "dismissed", "backoff"}

handled(outcome) == outcome # "none"

\* the score a whole handle_challenge call leaves (stealth.py 697-782)
score_after(score, outcome) ==
    CASE outcome = "none" -> decay(score, 2)
      [] outcome = "solved" -> decay(bump(score, 25), 15)
      [] outcome = "dismissed" -> decay(bump(score, 25), 10)
      [] OTHER -> bump(score, 25)

\* profile_tasks of run_session, in the order of the list (both enabled)
profile_tasks == <<"mutuals", "suggested">>

\* find_mutuals evaluates at most 3 profiles, the fallback of
\* process_suggested_accounts at most 2
max_to_evaluate == 3
max_suggested_profiles == 2

\* handle_challenge calls while find_mutuals collects links: two per hashtag
\* (search page, hashtag page) for the target and two fallback tags, one for
\* the feed fallback
MaxLoads == 7
\* cards of the suggested sidebar
MaxCards == 2

sessionFrame == <<rate_limit_count, lastOp, bumpDecay, pageState, phaseArg, detected,
                  handlerVars, sleep, mouse, workers, double_score>>

\* handle_challenge(page, phase) called by a task: the throttle as the call
\* leaves it, the captcha counter when the descriptor names a captcha
HandleChallenge(outcome, cap) ==
    /\ suspicion_score' = score_after(suspicion_score, outcome)
    /\ captcha_count' = IF handled(outcome) /\ cap THEN captcha_count + 1 ELSE captcha_count
    /\ UNCHANGED sessionFrame

\* what a task does without handle_challenge: a followed account decays the
\* score by 0.1, an empty page bumps it by 1.0 (_mark_soft_block)
step_effect(score, kind) ==
    CASE kind = "follow" -> decay(score, 1)
      [] kind = "soft_block" -> bump(score, 10)
      [] OTHER -> score

TaskStep(kind) ==
    /\ suspicion_score' = step_effect(suspicion_score, kind)
    /\ UNCHANGED <<captcha_count, sessionFrame>>

\* handle_challenge, and when it returned False the rest of the visit
HandleThen(outcome, cap, kind) ==
    /\ suspicion_score' = IF handled(outcome) THEN score_after(suspicion_score, outcome)
                          ELSE step_effect(score_after(suspicion_score, outcome), kind)
    /\ captcha_count' = IF handled(outcome) /\ cap THEN captcha_count + 1 ELSE captcha_count
    /\ UNCHANGED sessionFrame

StepKinds == {"plain", "follow", "soft_block"}

\* run_session calls in one run of the model
MaxSessions == 2

\* a run_session that starts the throttle afresh
StartSession_resets ==
    /\ session.pc = "idle"
    /\ session.n < MaxSessions
    /\ session' = [NoSession EXCEPT !.pc = "upload", !.n = session.n + 1]
    /\ suspicion_score' = 0
    /\ captcha_count' = 0
    /\ UNCHANGED sessionFrame

\* run_session: the per-session counters and the flag are reset, then
\* check_and_upload_scheduled
StartSession ==
    /\ session.pc = "idle"
    /\ session.n < MaxSessions
    /\ session' = [NoSession EXCEPT !.pc = "upload", !.n = session.n + 1]
    /\ TaskStep("plain")

\* run_session has returned; the scheduler calls it again later
EndSession ==
    /\ session.pc = "end"
    /\ session' = [session EXCEPT !.pc = "idle"]
    /\ TaskStep("plain")

\* check_and_upload_scheduled: nothing is due, or upload_content runs its
\* handle_challenge(phase="upload"); a challenge there fails the upload only
SkipUpload ==
    /\ session.pc = "upload"
    /\ session' = [session EXCEPT !.pc = "feed"]
    /\ TaskStep("plain")

UploadCheck(outcome, cap) ==
    /\ session.pc = "upload"
    /\ session' = [session EXCEPT !.pc = "feed"]
    /\ HandleChallenge(outcome, cap)

\* interact_feed: handle_challenge(phase="feed"); on True the feed task
\* returns, and _captcha_hit_this_session is left as it was
FeedCheck(outcome, cap) ==
    /\ session.pc = "feed"
    /\ session' = [session EXCEPT
                       !.pc = IF handled(outcome) THEN "tasks" ELSE "feed_loop",
                       !.challenge_seen = @ \/ handled(outcome)]
    /\ HandleChallenge(outcome, cap)

\* interact_feed: the videos are watched (no handle_challenge), then the
\* pause of run_session before the profile tasks
FeedLoop(kind) ==
    /\ session.pc = "feed_loop"
    /\ kind # "follow"
    /\ session' = [session EXCEPT !.pc = "tasks"]
    /\ TaskStep(kind)

\* the task ends and run_session's loop moves to the next entry
EndTask(s) == [s EXCEPT !.pc = "tasks", !.task = @ + 1, !.i = 0]

\* run_session's loop over profile_tasks: continue when the flag is set,
\* break when the throttle is critical, else task_fn()
RunTask ==
    /\ session.pc = "tasks"
    /\ session' =
         IF session.task > Len(profile_tasks) THEN [session EXCEPT !.pc = "end"]
         ELSE IF session._captcha_hit_this_session THEN [session EXCEPT !.task = @ + 1]
         ELSE IF is_critical(suspicion_score) THEN [session EXCEPT !.pc = "end"]
         ELSE [session EXCEPT
                   !.pc = IF profile_tasks[session.task] = "mutuals"
                          THEN "m_load" ELSE "s_first",
                   !.i = 0,
                   !.started_after =
                       IF session.challenge_seen
                       THEN @ \cup {profile_tasks[session.task]} ELSE @]
    /\ TaskStep("plain")

\* find_mutuals, strategies 1, 2 and 2b: each page load is followed by a
\* handle_challenge; True sets the flag and ends the loading. links: whether
\* profile links were collected when the loading ends
MutualsLoad(outcome, cap, more, links) ==
    /\ session.pc = "m_load"
    /\ session.i < MaxLoads
    /\ session' =
         IF ~handled(outcome) /\ more /\ session.i + 1 < MaxLoads
         THEN [session EXCEPT !.i = @ + 1]
         ELSE LET s == [session EXCEPT
                            !._captcha_hit_this_session = @ \/ handled(outcome),
                            !.challenge_seen = @ \/ handled(outcome)]
              IN  IF links THEN [s EXCEPT !.pc = "m_loop", !.i = 0] ELSE EndTask(s)
    /\ HandleChallenge(outcome, cap)

\* find_mutuals, head of the profile loop: break on the critical throttle and
\* on the flag, else the next profile is visited
MutualsLoop ==
    /\ session.pc = "m_loop"
    /\ session' =
         IF \/ session.i >= max_to_evaluate
            \/ is_critical(suspicion_score)
            \/ session._captcha_hit_this_session
         THEN EndTask(session)
         ELSE [session EXCEPT !.pc = "m_visit", !.i = @ + 1,
                              !.visits_after = @ \/ session.challenge_seen]
    /\ TaskStep("plain")

\* _evaluate_and_follow: handle_challenge(phase="profile") on the profile page;
\* True sets the flag and returns, False leads to the evaluation of the
\* profile. last: no further link in the list, so no cooldown follows
MutualsVisit(outcome, cap, kind, last) ==
    /\ session.pc = "m_visit"
    /\ session.i = max_to_evaluate => last
    /\ session' = [session EXCEPT
                       !.pc = IF last THEN "m_loop" ELSE "m_cool",
                       !.i = IF last THEN max_to_evaluate ELSE @,
                       !._captcha_hit_this_session = @ \/ handled(outcome),
                       !.challenge_seen = @ \/ handled(outcome)]
    /\ HandleThen(outcome, cap, kind)

\* find_mutuals, cooldown between two visits: goto home, pause,
\* handle_challenge(phase="profile"); True sets the flag and breaks
MutualsCooldown(outcome, cap) ==
    /\ session.pc = "m_cool"
    /\ session' =
         IF handled(outcome)
         THEN EndTask([session EXCEPT !._captcha_hit_this_session = TRUE,
                                      !.challenge_seen = TRUE])
         ELSE [session EXCEPT !.pc = "m_loop"]
    /\ HandleChallenge(outcome, cap)

\* process_suggested_accounts: handle_challenge(phase="suggested") after the
\* goto, handle_challenge(page) after the pause; True sets the flag and returns.
\* sidebar: whether the suggested sidebar is found after the second check
SuggestedCheck(outcome, cap, sidebar) ==
    /\ session.pc \in {"s_first", "s_second"}
    /\ session' =
         IF handled(outcome)
         THEN EndTask([session EXCEPT !._captcha_hit_this_session = TRUE,
                                      !.challenge_seen = TRUE])
         ELSE IF session.pc = "s_first" THEN [session EXCEPT !.pc = "s_second"]
         ELSE [session EXCEPT !.pc = IF sidebar THEN "s_cards" ELSE "s_links", !.i = 0]
    /\ HandleChallenge(outcome, cap)

\* the loop over the sidebar's cards: break on the critical throttle, else
\* handle_challenge(page); True sets the flag and breaks, False leads to the
\* card being followed (decay 0.1) or skipped
SuggestedCard(outcome, cap, kind) ==
    /\ session.pc = "s_cards"
    /\ kind # "soft_block"
    /\ IF session.i >= MaxCards \/ is_critical(suspicion_score)
       THEN session' = EndTask(session) /\ TaskStep("plain")
       ELSE /\ session' =
                 IF handled(outcome)
                 THEN EndTask([session EXCEPT !._captcha_hit_this_session = TRUE,
                                              !.challenge_seen = TRUE])
                 ELSE [session EXCEPT !.i = @ + 1]
            /\ HandleThen(outcome, cap, kind)

\* _process_any_visible_suggestions: break on the flag, else pause and
\* handle_challenge(phase="suggested"); True sets the flag and breaks, False
\* leads to _evaluate_and_follow
SuggestedLink(outcome, cap) ==
    /\ session.pc = "s_links"
    /\ IF session.i >= max_suggested_profiles \/ session._captcha_hit_this_session
       THEN session' = EndTask(session) /\ TaskStep("plain")
       ELSE /\ session' =
                 IF handled(outcome)
                 THEN EndTask([session EXCEPT !._captcha_hit_this_session = TRUE,
                                              !.challenge_seen = TRUE])
                 ELSE [session EXCEPT !.pc = "s_visit", !.i = @ + 1,
                                      !.visits_after = @ \/ session.challenge_seen]
            /\ HandleChallenge(outcome, cap)

\* _evaluate_and_follow called by the fallback
SuggestedVisit(outcome, cap, kind) ==
    /\ session.pc = "s_visit"
    /\ session' = [session EXCEPT
                       !.pc = "s_links",
                       !._captcha_hit_this_session = @ \/ handled(outcome),
                       !.challenge_seen = @ \/ handled(outcome)]
    /\ HandleThen(outcome, cap, kind)

\* a session starts with any score the throttle reaches
SessionInit ==
    /\ SleepInit
    /\ suspicion_score \in {0, 25, 50, 60, 100}

SessionNext ==
    \/ StartSession
    \/ EndSession
    \/ SkipUpload
    \/ \E o \in Outcomes, cap \in BOOLEAN : UploadCheck(o, cap)
    \/ \E o \in Outcomes, cap \in BOOLEAN : FeedCheck(o, cap)
    \/ \E k \in StepKinds : FeedLoop(k)
    \/ RunTask
    \/ \E o \in Outcomes, cap, more, links \in BOOLEAN : MutualsLoad(o, cap, more, links)
    \/ MutualsLoop
    \/ \E o \in Outcomes, cap, last \in BOOLEAN, k \in StepKinds :
           MutualsVisit(o, cap, k, last)
    \/ \E o \in Outcomes, cap \in BOOLEAN : MutualsCooldown(o, cap)
    \/ \E o \in Outcomes, cap, sidebar \in BOOLEAN : SuggestedCheck(o, cap, sidebar)
    \/ \E o \in Outcomes, cap \in BOOLEAN, k \in StepKinds : SuggestedCard(o, cap, k)
    \/ \E o \in Outcomes, cap \in BOOLEAN : SuggestedLink(o, cap)
    \/ \E o \in Outcomes, cap \in BOOLEAN, k \in StepKinds : SuggestedVisit(o, cap, k)

SpecSession == SessionInit /\ [][SessionNext]_vars

(***************************************************************************)
(* _human_drag_slider (captcha_solver.py 186-241)                          *)
(***************************************************************************)
\* steps = random.randint(25, 45), both ends included
STEPS_MIN == 25
STEPS_MAX == 45

\* a pointer event: page.mouse.move / down / up, and where a move goes (the
\* start point, a point of the eased path, beyond the target, the target)
Event(op, to) == [op |-> op, to |-> to]

dragFrame == <<throttleVars, lastOp, bumpDecay, pageState, phaseArg, detected,
               handlerVars, sleep, session, workers, double_score>>

\* one mouse operation of the drag: it is issued and the drag moves on, or it
\* raises and the exception leaves _human_drag_slider
MouseOp(ok, ev, next, steps) ==
    /\ mouse' = IF ok
                THEN [mouse EXCEPT !.pc = next, !.steps = steps, !.events = Append(@, ev)]
                ELSE [mouse EXCEPT !.pc = "raised"]
    /\ UNCHANGED dragFrame

\* `box and box["width"] > 20` of _find_slider_track's selector loop
MIN_TRACK_WIDTH == 20

selector_accepts(box) == box.width > MIN_TRACK_WIDTH

\* the bounding boxes (pixels) the selectors may give: x, and widths around
\* the threshold, around the 30 pixels the drag leaves out, and of a usual track
TrackBoxes == { [x |-> x, width |-> w] : x \in {0, 480}, w \in {20, 21, 29, 30, 300} }

\* the fractions (1/7200) the drag is asked for: both ends and the middle
DragFractions == {0, 3600, FRAC_ONE}

\* start_x = slider_box["x"] + 15, in 1/7200 pixel
start_x(box) == (box.x + 15) * FRAC_ONE

\* travel = (slider_box["width"] - 30) * fraction
travel(box, f) == (box.width - 30) * f

\* end_x = start_x + travel
end_x(box, f) == start_x(box) + travel(box, f)

\* a solver calls _human_drag_slider(page, slider_box, fraction) with a box of
\* the track finder
DragCall(box, f) ==
    /\ mouse.pc = "idle"
    /\ selector_accepts(box)
    /\ mouse' = [mouse EXCEPT !.pc = "start", !.box = box, !.fraction = f]
    /\ UNCHANGED dragFrame

\* page.mouse.move(start_x, start_y)
MoveToStart(ok) ==
    /\ mouse.pc = "start"
    /\ MouseOp(ok, Event("move", "start"), "press", 0)

\* page.mouse.down(); then steps is drawn
Press(ok, n) ==
    /\ mouse.pc = "press"
    /\ n \in STEPS_MIN..STEPS_MAX
    /\ MouseOp(ok, Event("down", "-"), "path", n)

\* the number of path moves issued so far
PathMoves == Cardinality({ i \in 1..Len(mouse.events) : mouse.events[i].to = "path" })

\* a loop that runs once more than `steps` times
PathMove_extra(ok) ==
    /\ mouse.pc = "path"
    /\ PathMoves <= mouse.steps
    /\ MouseOp(ok, Event("move", "path"), "path", mouse.steps)

\* one iteration of `for i in range(1, steps + 1)`: a move along the path
PathMove(ok) ==
    /\ mouse.pc = "path"
    /\ PathMoves < mouse.steps
    /\ MouseOp(ok, Event("move", "path"), "path", mouse.steps)

\* the loop is over; `random.random() < 0.4` decides on the overshoot
AfterPath(overshoot) ==
    /\ mouse.pc = "path"
    /\ PathMoves >= mouse.steps
    /\ mouse' = [mouse EXCEPT !.pc = IF overshoot THEN "overshoot" ELSE "release"]
    /\ UNCHANGED dragFrame

\* page.mouse.move(end_x + overshoot, end_y)
Overshoot(ok) ==
    /\ mouse.pc = "overshoot"
    /\ MouseOp(ok, Event("move", "overshoot"), "correct", mouse.steps)

\* page.mouse.move(end_x, end_y)
Correct(ok) ==
    /\ mouse.pc = "correct"
    /\ MouseOp(ok, Event("move", "target"), "release", mouse.steps)

\* page.mouse.up()
Release(ok) ==
    /\ mouse.pc = "release"
    /\ MouseOp(ok, Event("up", "-"), "done", mouse.steps)

DragInit == HandlerInit

DragNext ==
    \/ \E box \in TrackBoxes, f \in DragFractions : DragCall(box, f)
    \/ \E ok \in BOOLEAN : MoveToStart(ok)
    \/ \E ok \in BOOLEAN, n \in STEPS_MIN..STEPS_MAX : Press(ok, n)
    \/ \E ok \in BOOLEAN : PathMove(ok)
    \/ \E overshoot \in BOOLEAN : AfterPath(overshoot)
    \/ \E ok \in BOOLEAN : Overshoot(ok)
    \/ \E ok \in BOOLEAN : Correct(ok)
    \/ \E ok \in BOOLEAN : Release(ok)

SpecDrag == DragInit /\ [][DragNext]_vars

(***************************************************************************)
(* bump and decay called by several workers on the one ThrottleState       *)
(* (stealth.py 42-53, 72-77)                                               *)
(***************************************************************************)
\* workers that share get_throttle()'s object
NumWorkers == 2

Workers == 1..NumWorkers

\* the amounts (tenths) handle_challenge hands to bump and decay
WorkerAmounts == {2, 10, 15, 25}

\* what a worker's call computes from the score it has read
apply_op(c, score) == IF c.op = "bump" THEN bump(score, c.amount) ELSE decay(score, c.amount)

\* a worker that has not called
Idle == [pc |-> "idle", op |-> "none", amount |-> 0, tmp |-> 0]

workersFrame == <<captcha_count, rate_limit_count, lastOp, bumpDecay, pageState, phaseArg,
                  detected, handlerVars, sleep, session, mouse, double_score>>

\* worker n calls get_throttle().bump(amount) or .decay(amount)
Invoke(n, op, amount) ==
    /\ workers.w[n].pc = "idle"
    /\ workers' = [workers EXCEPT !.w[n] = [pc |-> "called", op |-> op, amount |-> amount,
                                            tmp |-> 0]]
    /\ UNCHANGED <<suspicion_score, workersFrame>>

\* a read of self.suspicion_score that does not wait for the other workers
LoadScore_unguarded(n) ==
    /\ workers.w[n].pc = "called"
    /\ workers' = [workers EXCEPT !.w[n].pc = "loaded", !.w[n].tmp = suspicion_score,
                                  !.lock = IF workers.mode = "mutex" THEN n ELSE @]
    /\ UNCHANGED <<suspicion_score, workersFrame>>

\* the right-hand side reads self.suspicion_score; callers that serialize
\* their access enter only when no other worker is between its read and its
\* write
LoadScore(n) ==
    /\ workers.w[n].pc = "called"
    /\ workers.mode = "mutex" => workers.lock = 0
    /\ workers' = [workers EXCEPT !.w[n].pc = "loaded", !.w[n].tmp = suspicion_score,
                                  !.lock = IF workers.mode = "mutex" THEN n ELSE @]
    /\ UNCHANGED <<suspicion_score, workersFrame>>

\* the assignment stores min(read + amount, MAX_SCORE) or max(0.0, read - amount)
StoreScore(n) ==
    /\ workers.w[n].pc = "loaded"
    /\ suspicion_score' = apply_op(workers.w[n], workers.w[n].tmp)
    /\ workers' = [workers EXCEPT !.w[n].pc = "done", !.lock = 0]
    /\ UNCHANGED workersFrame

\* the workers start on any score, with or without serialized access
WorkersInit ==
    /\ SleepInit
    /\ suspicion_score \in {0, 30, 50, 90, 100}

WorkersStart(mode) ==
    /\ workers = NoWorkers
    /\ double_score = Zero
    /\ workers' = [mode |-> mode, start |-> suspicion_score, lock |-> 0,
                   w |-> [n \in Workers |-> Idle]]
    /\ UNCHANGED <<suspicion_score, workersFrame>>

WorkersNext ==
    \/ \E mode \in {"mutex", "free"} : WorkersStart(mode)
    \/ \E n \in Workers, op \in {"bump", "decay"}, a \in WorkerAmounts :
           workers # NoWorkers /\ Invoke(n, op, a)
    \/ \E n \in Workers : workers # NoWorkers /\ LoadScore(n)
    \/ \E n \in Workers : workers # NoWorkers /\ StoreScore(n)

SpecWorkers == WorkersInit /\ [][WorkersNext]_vars

(***************************************************************************)
(* The detector runs inside a handle_challenge call: the verification      *)
(* after a drag (captcha_solver.py 310, 432) and the re-check after a      *)
(* dismissal (stealth.py 752), on every page of every family               *)
(***************************************************************************)
\* a CAPTCHA widget found by the first selector: a challenge in every phase
WidgetPage == [CleanPage EXCEPT !.selVisible = {1}]

\* where a call that found the widget stands when it runs the detector again:
\* a solver has made its first drag, or the rotation solver found no track and
\* the dismissal clicked a control
RecheckPoints ==
    { [pc |-> "verify", solver |-> "rotation"], [pc |-> "verify", solver |-> "jigsaw"],
      [pc |-> "recheck", solver |-> "rotation"] }

\* the call at one of these points, in any phase, the page now being any page
RecheckInit ==
    \E at \in RecheckPoints :
        LET list == IF at.solver = "rotation" THEN ROTATION_FALLBACK ELSE JIGSAW_FALLBACK
            dragged == at.pc = "verify"
        IN  /\ suspicion_score = bump(0, 25)
            /\ captcha_count = 1
            /\ rate_limit_count = 0
            /\ lastOp = NoOp
            /\ bumpDecay = NoPair
            /\ pageState \in Pages
            /\ phaseArg \in Phases
            /\ detected = NotRun
            /\ pc = at.pc
            /\ calls = 1
            /\ challenge = detect_challenge(WidgetPage, phaseArg)
            /\ ret = "none"
            /\ lastErr = "none"
            /\ ptype = at.solver
            /\ solver = at.solver
            /\ attempts = IF dragged THEN list ELSE <<>>
            /\ idx = IF dragged THEN 1 ELSE 0
            /\ drags = IF dragged THEN 1 ELSE 0
            /\ dismissed = ~dragged
            /\ pause = "none"
            /\ fraction = IF dragged THEN list[1] ELSE NoEstimate
            /\ slider_box = dragged
            /\ callHist = [score |-> 0, captcha_count |-> 0, bumps |-> 1,
                           effects |-> IF dragged THEN {"drag"} ELSE {"dismiss", "click"},
                           exit |-> "none", pending |-> dragged, lost |-> "none"]
            /\ trueCalls = 0
            /\ sleep = NoSleep
            /\ session = NoSession
            /\ mouse = NoDrag
            /\ workers = NoWorkers
    /\ double_score = Zero

\* the detector run of the solver or of the handler, on the page as it is
RecheckNext ==
    \/ VerifyClean(pageState)
    \/ VerifyChallenge(pageState)
    \/ RecheckClean(pageState)
    \/ RecheckChallenge(pageState)

SpecRecheck == RecheckInit /\ [][RecheckNext]_vars

(***************************************************************************)
(* The last handle_challenge call of a run, entered at any score           *)
(***************************************************************************)
\* scores (tenths) the soft-block bumps of 1.0, the handler's bumps of 2.5 and
\* the decays have left before the call
EntryScores == {0, 50, 75, 84, 85, 86, 90, 91, 100}

\* the calls before found the page clean; one call is left
LastCallInit ==
    /\ suspicion_score \in EntryScores
    /\ captcha_count = 0
    /\ rate_limit_count = 0
    /\ lastOp = NoOp
    /\ bumpDecay = NoPair
    /\ pageState = CleanPage
    /\ phaseArg = "none"
    /\ detected = NotRun
    /\ pc = "idle"
    /\ calls = MaxCalls - 1
    /\ challenge = NoSignal
    /\ ret = "none"
    /\ lastErr = "none"
    /\ ptype = "none"
    /\ solver = "none"
    /\ attempts = <<>>
    /\ idx = 0
    /\ drags = 0
    /\ dismissed = FALSE
    /\ pause = "none"
    /\ fraction = NoEstimate
    /\ slider_box = FALSE
    /\ callHist = NoCall
    /\ trueCalls = 0
    /\ sleep = NoSleep
    /\ session = NoSession
    /\ mouse = NoDrag
    /\ workers = NoWorkers
    /\ double_score = Zero

SpecLastCall == LastCallInit /\ [][Next]_vars

(***************************************************************************)
(* handle_challenge calls that all find the page clean: decay(0.2) on the  *)
(* double the score is held in (stealth.py 51-53, 697-700)                 *)
(***************************************************************************)
\* the clean calls followed
MaxCleanCalls == 52

\* a double d >= 0 is written as the integer d * 2^55 = hi * 2^28 + lo with
\* 0 <= lo < 2^28; every double in [0.125, 16) is such an integer, and so is
\* every difference the decays below compute
LIMB == 268435456

\* the double nearest to 0.2: 7205759403792794 * 2^-55
POINT_TWO == [hi |-> 26843545, lo |-> 161061274]

\* the double of a score of n tenths, n a multiple of 5 (1.0 is 2^27 * 2^28)
FromTenths(n) == [hi |-> (n \div 5) * 67108864, lo |-> 0]

\* x < y
Less(x, y) == x.hi < y.hi \/ (x.hi = y.hi /\ x.lo < y.lo)

\* the real number x - y, for x >= y
Sub(x, y) ==
    IF x.lo >= y.lo THEN [hi |-> x.hi - y.hi, lo |-> x.lo - y.lo]
    ELSE [hi |-> x.hi - y.hi - 1, lo |-> x.lo + LIMB - y.lo]

\* the spacing of the doubles around r, in units of 2^-55: 2^-52 times the
\* power of two at or below r
Spacing(r) ==
    CASE r.hi >= 1073741824 -> 64
      [] r.hi >= 536870912 -> 32
      [] r.hi >= 268435456 -> 16
      [] r.hi >= 134217728 -> 8
      [] r.hi >= 67108864 -> 4
      [] r.hi >= 33554432 -> 2
      [] OTHER -> 1

\* a rounding that always goes to the neighbour above
RoundToDouble_up(r) ==
    LET g == Spacing(r)
        q == r.lo \div g
        lo == (IF r.lo % g > 0 THEN q + 1 ELSE q) * g
    IN  IF lo = LIMB THEN [hi |-> r.hi + 1, lo |-> 0] ELSE [hi |-> r.hi, lo |-> lo]

\* the double nearest to the real number r, ties to the even neighbour
RoundToDouble(r) ==
    LET g == Spacing(r)
        q == r.lo \div g
        rest == r.lo % g
        up == 2 * rest > g \/ (2 * rest = g /\ q % 2 = 1)
        lo == (IF up THEN q + 1 ELSE q) * g
    IN  IF lo = LIMB THEN [hi |-> r.hi + 1, lo |-> 0] ELSE [hi |-> r.hi, lo |-> lo]

\* max(0.0, x - 0.2) in double arithmetic
decay_double(x) == IF Less(x, POINT_TWO) THEN Zero ELSE RoundToDouble(Sub(x, POINT_TWO))

\* self.suspicion_score >= self.CRITICAL_THRESHOLD on the double
is_critical_double(x) == x.hi >= (CRITICAL_THRESHOLD \div 10) * 134217728

\* scores (tenths) from which the clean calls start, each an exact double
CleanStarts == {0, 5, 10, 25, 50, 60, 75, 85, 90, 100}

CleanCallsInit ==
    /\ suspicion_score \in CleanStarts
    /\ captcha_count = 0
    /\ rate_limit_count = 0
    /\ lastOp = NoOp
    /\ bumpDecay = NoPair
    /\ pageState = CleanPage
    /\ phaseArg = "none"
    /\ detected = NotRun
    /\ pc = "idle"
    /\ calls = 0
    /\ challenge = NoSignal
    /\ ret = "none"
    /\ lastErr = "none"
    /\ ptype = "none"
    /\ solver = "none"
    /\ attempts = <<>>
    /\ idx = 0
    /\ drags = 0
    /\ dismissed = FALSE
    /\ pause = "none"
    /\ fraction = NoEstimate
    /\ slider_box = FALSE
    /\ callHist = NoCall
    /\ trueCalls = 0
    /\ sleep = NoSleep
    /\ session = NoSession
    /\ mouse = NoDrag
    /\ workers = NoWorkers
    /\ double_score = FromTenths(suspicion_score)

\* one handle_challenge call on a clean page: decay(0.2), return False
CleanCall ==
    /\ calls < MaxCleanCalls
    /\ calls' = calls + 1
    /\ suspicion_score' = decay(suspicion_score, 2)
    /\ double_score' = decay_double(double_score)
    /\ ret' = "false"
    /\ UNCHANGED <<captcha_count, rate_limit_count, lastOp, bumpDecay, pageState, phaseArg,
                   detected, pc, challenge, lastErr, ptype, solver, attempts, idx, drags,
                   dismissed, pause, fraction, slider_box, callHist, trueCalls, sleep,
                   session, mouse, workers>>

CleanCallsNext == CleanCall

SpecCleanCalls == CleanCallsInit /\ [][CleanCallsNext]_vars

(***************************************************************************)
(* Properties                                                              *)
(***************************************************************************)

\* C1: handle_challenge returns True exactly when its first detection reported
\* a challenge (solved, dismissed or still there after the backoff), and False
\* exactly when that detection was None.
C1_ReturnsTrueIffDetected ==
    pc = "done" =>
        /\ ret \in {"true", "false"}
        /\ (ret = "true") <=> (challenge # NoSignal)

\* a call that found a challenge, backed off and returned True
C1_Witness == pc = "done" /\ ret = "true" /\ challenge # NoSignal /\ pause = "short"

\* C2: whatever page operation raises, no exception reaches the caller of
\* handle_challenge and a returned call has returned a boolean; a drag that
\* raises in the solver leads to the dismiss attempt, a dismiss attempt in
\* which everything raises leads to the backoff.
C2_NeverRaises ==
    /\ pc # "raised"
    /\ pc = "done" => ret \in {"true", "false"}
    /\ lastErr = "solve" => pc = "dismiss"
    /\ (lastErr = "dismiss" /\ ~dismissed) => pc = "backoff"
    /\ lastErr = "goto" => (pc = "done" /\ ret = "true")

\* the goto raised after the backoff, and the call still returned True
C2_Witness == pc = "done" /\ lastErr = "goto" /\ ret = "true" /\ ~dismissed /\ drags > 0

\* C3: after any sequence of bump and decay calls from the initial score 0.0,
\* 0 <= score <= 10.
C3_ScoreInRange == 0 <= suspicion_score /\ suspicion_score <= MAX_SCORE

\* a bump that the clamp cut off at 10
C3_Witness ==
    /\ lastOp.op = "bump"
    /\ lastOp.pre + lastOp.amount > MAX_SCORE
    /\ suspicion_score = MAX_SCORE

C5_DelayMultiplierMonotone ==
    /\ \A higher \in suspicion_score..MAX_SCORE :
           delay_multiplier(suspicion_score) <= delay_multiplier(higher)
    /\ delay_multiplier(suspicion_score) >= 1000
    /\ suspicion_score = 0 => delay_multiplier(suspicion_score) = 1000
    /\ suspicion_score = MAX_SCORE => delay_multiplier(suspicion_score) = 4000

\* a bump from 2.9 that lands on the warning threshold
C5_Witness ==
    /\ lastOp.op = "bump"
    /\ lastOp.pre = WARN_THRESHOLD - 1
    /\ suspicion_score = WARN_THRESHOLD

\* C6: one run of the rotation solver makes at most 6 drags, one run of the
\* jigsaw solver at most 5, whatever the page does between the attempts.
C6_DragCap ==
    /\ solver = "rotation" => drags <= 6
    /\ solver = "jigsaw" => drags <= 5

\* the rotation solver has made its sixth drag
C6_Witness == solver = "rotation" /\ drags = 6 /\ pc = "verify"

\* C7: a page whose URL contains "captcha" or "challenge" is reported as a
\* challenge (by its URL) in every phase, whatever the shadow DOM, the
\* dialogs, the selectors and the texts are.
C7_UrlAlwaysDetected ==
    ( /\ detected # NotRun
      /\ pageState.url.ok
      /\ pageState.url.tokens \cap {"captcha", "challenge"} # {} )
    => detected.sig.kind = "challenge_url"

\* a "challenge" URL detected in the upload phase, over a shadow-DOM widget
\* and a visible dialog
C7_Witness ==
    /\ detected # NotRun
    /\ "challenge" \in pageState.url.tokens
    /\ phaseArg = "upload"
    /\ pageState.shadow = 2
    /\ pageState.dialog = "visible"
    /\ detected.sig.kind = "challenge_url"

\* some indicator phrase is in the words
HasIndicator(words) ==
    \E i \in 1..Len(IndicatorWords) : Contains(IndicatorWords[i], words)

\* a whitelisted login / signup marker is visible
LegitMarkerShown(p) == \E i \in p.legitVisible : i \notin p.legitErr

\* nothing but the dialog could be a signal: no challenge URL, no shadow-DOM
\* widget, no CAPTCHA selector, no indicator phrase in any text
NoOtherSignal(p) ==
    /\ p.url.tokens \cap {"captcha", "challenge"} = {}
    /\ p.shadow < 1
    /\ p.selVisible \ p.selErr = {}
    /\ ~HasIndicator(p.errorPage.text.words)
    /\ ~HasIndicator(p.dialogText.words)
    /\ ~HasIndicator(p.body.text.words)

\* C8: a visible dialog with a whitelisted login / signup marker, on a page
\* with no other challenge signal, is never flagged, also on a profile URL.
C8_LegitDialogNotFlagged ==
    ( /\ detected # NotRun
      /\ pageState.dialog = "visible"
      /\ LegitMarkerShown(pageState)
      /\ NoOtherSignal(pageState) )
    => detected.sig = NoSignal

\* a login prompt on a profile page, outside the upload phase, not flagged
C8_Witness ==
    /\ detected # NotRun
    /\ pageState.dialog = "visible"
    /\ LegitMarkerShown(pageState)
    /\ NoOtherSignal(pageState)
    /\ pageState.dialogText = Text(LoginPrompt, 100)
    /\ pageState.url = ProfileUrl
    /\ phaseArg = "feed"
    /\ detected.sig = NoSignal

ShortIndicatorText(c) ==
    c.exists /\ c.text.ok /\ HasIndicator(c.text.words) /\ c.text.len < 500

C11_BackoffPause ==
    pause # "none" =>
        /\ pc \in {"goto", "done"}
        /\ suspicion_score = Min(callHist.score + 25, 100)
        /\ suspicion_score >= 60 => (pause = "long" /\ pause_range(pause).lo = 180
                                       /\ pause_range(pause).hi = 360)
        /\ suspicion_score < 60 => (pause = "short" /\ pause_range(pause).lo = 60
                                      /\ pause_range(pause).hi = 180)

\* the backoff reached with a score of exactly 6.0
C11_Witness == pc = "goto" /\ suspicion_score = 60 /\ pause = "long"

\* the k-th fraction the claim lists for the estimate e: e, then e +5%, -5%,
\* +10%, -10%, +15%, -15%, modulo 1 (in 1/7200 of the track)
ListedFraction(e, k) ==
    CASE k = 1 -> e
      [] k = 2 -> (e + 360) % 7200
      [] k = 3 -> (e + 7200 - 360) % 7200
      [] k = 4 -> (e + 720) % 7200
      [] k = 5 -> (e + 7200 - 720) % 7200
      [] k = 6 -> (e + 1080) % 7200
      [] OTHER -> (e + 7200 - 1080) % 7200

\* the rotation solver runs with an estimate (its list has 7 entries, the
\* fallback list 8)
RotationWithEstimate == solver = "rotation" /\ Len(attempts) = 7

\* the k-th drag of the rotation solver went to the k-th listed fraction
DragsAsListed ==
    (RotationWithEstimate /\ pc \in {"verify", "refind"}) =>
        /\ drags = idx
        /\ fraction = ListedFraction(attempts[1], idx)

\* this step ends the rotation solver's loop although the track was found
\* again: no attempt verified and the attempts are used up
LoopUsedUp ==
    /\ RotationWithEstimate
    /\ pc = "refind"
    /\ slider_box'
    /\ pc' \notin {"refind", "drag"}

\* C12 as claimed: the rotation solver drags to e, then to e adjusted by +5%,
\* -5%, +10%, -10%, +15%, -15% in this order, and when no attempt verifies and
\* the track stays available it gives up only after all seven were tried.
C12_Original == [][DragsAsListed' /\ (LoopUsedUp => drags = 7)]_vars

\* C12 as amended: the rotation solver drags to e, then to e adjusted by +5%,
\* -5%, +10%, -10%, +15% in this order (the second attempt is e + 0.05); when
\* no attempt verifies and the track stays available it gives up after these
\* six drags, so that e - 15% is never tried.
C12_Amended == [][DragsAsListed' /\ (LoopUsedUp => drags = 6)]_vars

\* estimate 0.25: the sixth drag went to 0.40, after 0.30 as the second, and
\* the challenge is still there
C12_Witness ==
    /\ RotationWithEstimate
    /\ attempts[1] = 1800
    /\ attempts[2] = 2160
    /\ pc = "refind"
    /\ drags = 6
    /\ fraction = 2880

\* the most steps one run of a solver takes: finding the track, the estimate,
\* and a drag, a verification and a re-find for each of its 6 / 5 attempts
RunSteps(which) == IF which = "rotation" THEN 2 + 3 * 6 ELSE 2 + 3 * 5

\* the most steps left once the running solver has returned: the jigsaw run
\* that follows a failed rotation run of unknown type, then dismiss, re-check,
\* backoff and goto
AfterSolver ==
    IF ptype = "unknown" /\ solver = "rotation" THEN 4 + RunSteps("jigsaw") ELSE 4

\* an upper bound of the steps the running call still takes
StepsLeft ==
    CASE pc = "diag" -> 46
      [] pc = "detect" -> 45
      [] pc = "capture" -> 44
      [] pc = "bump" -> 43
      [] pc = "solve" -> 42
      [] pc = "track" -> AfterSolver + RunSteps(solver)
      [] pc = "estimate" -> AfterSolver + RunSteps(solver) - 1
      [] pc = "drag" -> AfterSolver + RunSteps(solver) - 3 * idx + 1
      [] pc = "verify" -> AfterSolver + RunSteps(solver) - 3 * idx
      [] pc = "refind" -> AfterSolver + RunSteps(solver) - 3 * idx - 1
      [] pc = "dismiss" -> 4
      [] pc = "recheck" -> 3
      [] pc = "backoff" -> 2
      [] pc = "goto" -> 1
      [] OTHER -> 0

\* C13: every handle_challenge call terminates, whatever the page does: each
\* step of a running call lowers a bound of the steps still to take that starts
\* at 46 and never passes below 0, so that no loop is repeated indefinitely.
C13_Terminates ==
    [][pc \notin {"idle", "done"} =>
          (StepsLeft' < StepsLeft /\ StepsLeft' >= 0 /\ pc' # "idle")]_vars

\* a call of unknown puzzle type that went through everything has returned: the
\* rotation run, the jigsaw run with its five drags, a dismiss click, the
\* backoff and the goto
C13_Witness ==
    /\ pc = "done"
    /\ ptype = "unknown"
    /\ solver = "jigsaw"
    /\ drags = 5
    /\ dismissed
    /\ callHist.effects = {"drag", "dismiss", "click", "pause", "goto"}

\* C14: a wait asked for through random_sleep lasts base x delay_multiplier,
\* the multiplier applied once, with and without a page.
C14_MultiplierOnce == sleep.called => sleep.duration = sleep.base * sleep.mult * 1000


\* C15: within one run_session, once a handle_challenge of the feed, mutuals or
\* suggested task returned True, run_session starts no profile-visit task
\* (mutuals, suggested) any more
C15_NoTaskAfterChallenge == session.started_after = {}

\* C16: a call whose initial detection finds nothing changes only the score,
\* which decays by 0.2 floored at 0; captcha_count and rate_limit_count stay as
\* they were, and no drag, click, key press, pause or navigation happens
C16_CleanCall ==
    (pc = "done" /\ challenge = NoSignal) =>
        /\ ret = "false"
        /\ suspicion_score = Max(0, callHist.score - 2)
        /\ captcha_count = callHist.captcha_count
        /\ rate_limit_count = 0
        /\ callHist.bumps = 0
        /\ callHist.effects = {}
        /\ drags = 0 /\ ~dismissed /\ pause = "none" /\ fraction = NoEstimate

\* a clean call made after a solved challenge left the score at 1.0
C16_Witness ==
    /\ pc = "done" /\ ret = "false"
    /\ callHist.score = 10 /\ suspicion_score = 8 /\ captcha_count = 1

\* the score right after the one bump of a call that found a challenge
Bumped == Min(callHist.score + 25, 100)

\* C17: a call that detects a challenge bumps the score exactly once, by 2.5
\* clamped at 10.0, before any solve attempt, dismiss attempt or backoff pause;
\* the detector runs after a drag or a dismissal add no bump
C17_BumpOnce ==
    /\ pc \in {"diag", "detect", "capture", "bump"} =>
           /\ callHist.bumps = 0
           /\ callHist.effects = {}
           /\ suspicion_score = callHist.score
    /\ pc \in {"solve", "track", "estimate", "drag", "verify", "refind", "dismiss",
               "recheck", "backoff", "goto"} =>
           /\ callHist.bumps = 1
           /\ suspicion_score = Bumped
    /\ (pc = "done" /\ challenge # NoSignal) =>
           /\ callHist.bumps = 1
           /\ suspicion_score \in {Bumped, Max(0, Bumped - 15), Max(0, Bumped - 10)}

\* a third call bumped 5.0 to 7.5 and five drags were verified since, each by
\* a detector run that still found the challenge
C17_Witness ==
    /\ pc = "refind" /\ drags = 5
    /\ callHist.score = 50 /\ suspicion_score = 75 /\ callHist.bumps = 1

\* C18: captcha_count grows by exactly 1 in a call whose initial descriptor
\* contains "captcha" and stays as it was in every other call; whenever no
\* call is under way it is at most the number of calls that returned True
C18_CaptchaCount ==
    /\ pc # "idle" =>
           captcha_count = callHist.captcha_count +
               (IF callHist.bumps > 0 /\ descriptor_has_captcha(challenge) THEN 1 ELSE 0)
    /\ pc \in {"idle", "done"} => captcha_count <= trueCalls

\* two calls have returned True, one on a captcha dialog and this one on a
\* descriptor without "captcha"
C18_Witness ==
    /\ pc = "done" /\ ret = "true"
    /\ challenge # NoSignal /\ ~descriptor_has_captcha(challenge)
    /\ captcha_count = 1 /\ trueCalls = 2

\* C19: when the solve attempt succeeded the call decays the score by 1.5 and
\* returns True with no dismiss attempt, backoff pause or navigation; the score
\* on return is max(0, min(s + 2.5, 10) - 1.5) for the score s at entry
C19_SolvedReturn ==
    callHist.exit = "solved" =>
        /\ pc = "done" /\ ret = "true"
        /\ suspicion_score = Max(0, Bumped - 15)
        /\ callHist.effects = {"drag"}
        /\ ~dismissed /\ pause = "none" /\ lastErr = "none"

\* the jigsaw solver's third drag cleared a challenge met at score 2.5
C19_Witness ==
    /\ pc = "done" /\ callHist.exit = "solved"
    /\ solver = "jigsaw" /\ drags = 3
    /\ callHist.score = 25 /\ suspicion_score = 35

\* C20: the dismiss attempt comes only after the solve attempt has run and not
\* succeeded; when it activated a control and the detector then finds nothing,
\* the score decays by 1.0 and the call returns True with no backoff pause
\* and no navigation
C20_DismissAfterSolve ==
    /\ (pc \in {"dismiss", "recheck"} \/ "dismiss" \in callHist.effects) =>
           /\ solver # "none"
           /\ callHist.bumps = 1
           /\ callHist.exit # "solved"
    /\ callHist.exit = "dismissed" =>
           /\ pc = "done" /\ ret = "true"
           /\ dismissed
           /\ suspicion_score = Max(0, Bumped - 10)
           /\ callHist.effects \cap {"pause", "goto"} = {}
           /\ pause = "none"

\* after six failed rotation drags a close control was clicked and the page
\* was clean
C20_Witness ==
    /\ pc = "done" /\ callHist.exit = "dismissed"
    /\ callHist.effects = {"drag", "dismiss", "click"}
    /\ solver = "rotation" /\ drags = 6
    /\ callHist.score = 0 /\ suspicion_score = 15

\* C21: the backoff pause and the navigation home happen only after the solve
\* attempt did not succeed and the dismiss attempt either failed or left the
\* challenge in place; the navigation comes after the pause and is the last
\* step of the call, so it happens at most once; neither of them decays the
\* score, and a navigation that raises still ends in the return of True
C21_BackoffLast ==
    /\ (pc \in {"backoff", "goto"} \/ "pause" \in callHist.effects) =>
           /\ solver # "none"
           /\ "dismiss" \in callHist.effects
           /\ callHist.exit = "none"
           /\ suspicion_score = Bumped
    /\ pc = "goto" => (pause # "none" /\ "pause" \in callHist.effects
                          /\ "goto" \notin callHist.effects)
    /\ "goto" \in callHist.effects =>
           /\ "pause" \in callHist.effects
           /\ pc = "done" /\ ret = "true"
           /\ suspicion_score = Bumped

\* a control was activated, the challenge was still there, and after the
\* short pause the navigation raised
C21_Witness ==
    /\ pc = "done" /\ ret = "true" /\ lastErr = "goto"
    /\ dismissed /\ pause = "short"
    /\ callHist.score = 0 /\ suspicion_score = 25

\* C22: in both solvers every completed drag is followed by a run of the
\* detector before anything else happens, so no drag follows a drag that was
\* not verified; once such a run finds nothing the solver has succeeded and
\* the call ends without another drag
C22_VerifyEachDrag ==
    /\ callHist.pending <=> pc = "verify"
    /\ pc = "verify" => (drags = idx /\ fraction = attempts[idx])
    /\ pc = "drag" => drags = idx - 1
    /\ callHist.exit = "solved" =>
           (pc = "done" /\ drags = idx /\ fraction = attempts[idx])

\* the jigsaw solver's second drag, at the second fallback position, was
\* verified clean
C22_Witness ==
    /\ pc = "done" /\ callHist.exit = "solved"
    /\ solver = "jigsaw" /\ drags = 2 /\ idx = 2 /\ fraction = attempts[2]
    /\ Len(attempts) = 6 /\ ptype = "jigsaw"

\* the call is in one of the solvers, between its search for the track and
\* its last verification
InSolver == pc \in {"track", "estimate", "drag", "verify", "refind"}

\* C23 as claimed: once the track could not be found again after a failed
\* verification, attempt_solve_captcha makes no further drag in that call,
\* whatever the puzzle type, and reports failure
C23_Original ==
    callHist.lost # "none" =>
        /\ solver = callHist.lost \/ drags = 0
        /\ callHist.exit # "solved"

\* C23 as amended: the solver that lost the track makes no further drag and
\* returns False; only when the puzzle type is unknown and it was the rotation
\* solver that lost it does attempt_solve_captcha go on, with the jigsaw
\* solver, which looks for the track afresh and drags when it finds one
C23_Amended ==
    callHist.lost # "none" =>
        /\ pc = "dismiss" \/ InSolver \/ callHist.exit = "solved"
        /\ (InSolver \/ callHist.exit = "solved") =>
               (ptype = "unknown" /\ callHist.lost = "rotation" /\ solver = "jigsaw")
        /\ pc = "track" => drags = 0

\* unknown puzzle type: the rotation solver lost the track after its second
\* drag, the jigsaw solver found one and has made its first drag
C23_Witness ==
    /\ pc = "verify" /\ ptype = "unknown" /\ solver = "jigsaw"
    /\ callHist.lost = "rotation" /\ drags = 1 /\ slider_box

\* the k-th entry of the jigsaw list for the estimate e: e, then e adjusted by
\* +3%, -3%, +6%, -6%, +10%, -10% and clamped into [0.05, 0.95]
ClampedFraction(e, k) ==
    LET adj == CASE k = 2 -> e + 216
                 [] k = 3 -> e - 216
                 [] k = 4 -> e + 432
                 [] k = 5 -> e - 432
                 [] k = 6 -> e + 720
                 [] OTHER -> e - 720
    IN  IF k = 1 THEN e ELSE Max(360, Min(6840, adj))

\* the jigsaw solver runs with an estimate (its list has 7 entries, the
\* fallback list 6)
JigsawWithEstimate == solver = "jigsaw" /\ Len(attempts) = 7

\* the k-th drag of the jigsaw solver went to the k-th listed fraction
JigsawDragsAsListed ==
    (JigsawWithEstimate /\ pc \in {"verify", "refind"}) =>
        /\ drags = idx
        /\ fraction = ClampedFraction(attempts[1], idx)

\* this step ends the jigsaw solver's loop although the track was found
\* again: no attempt verified and the attempts are used up
JigsawLoopUsedUp ==
    /\ JigsawWithEstimate
    /\ pc = "refind"
    /\ slider_box'
    /\ pc' \notin {"refind", "drag"}

\* C24 as claimed: the jigsaw solver drags to e, then to e adjusted by +3%,
\* -3%, +6%, -6%, +10%, -10% (clamped), and when no attempt verifies and the
\* track stays available it gives up only after all seven were tried
C24_Original == [][JigsawDragsAsListed' /\ (JigsawLoopUsedUp => drags = 7)]_vars

\* C24 as amended: the jigsaw solver drags to e, then to e adjusted by +3%,
\* -3%, +6%, -6% (clamped into [0.05, 0.95]) in this order; when no attempt
\* verifies and the track stays available it gives up after these five drags,
\* so that neither e + 10% nor e - 10% is tried
C24_Amended == [][JigsawDragsAsListed' /\ (JigsawLoopUsedUp => drags = 5)]_vars

\* estimate 0.97: the second and the fourth drag were clamped to 0.95, the
\* fifth went to 0.91, and the challenge is still there
C24_Witness ==
    /\ JigsawWithEstimate
    /\ attempts[1] = 6984 /\ attempts[2] = 6840 /\ attempts[4] = 6840
    /\ pc = "refind" /\ drags = 5 /\ fraction = 6552

\* the signals the page shows, one per probe group
HasUrlSignal ==
    "captcha" \in pageState.url.tokens \/ "challenge" \in pageState.url.tokens
HasShadowSignal == pageState.shadow >= 1
HasDialogSignal == phaseArg # "upload" /\ dialog_check(pageState) # NoSignal
HasDomSignal == \E i \in pageState.selVisible : i \notin pageState.selErr
HasTextSignal == text_check(pageState, 1) # NoSignal

\* the probe group a descriptor comes from, and the groups' priority
ProbeOf(sig) ==
    CASE sig.kind = "challenge_url" -> "url"
      [] sig.kind = "shadow_dom" -> "shadow"
      [] sig.kind \in {"dialog_captcha", "unexpected_dialog_on_profile"} -> "dialog"
      [] sig.kind = "captcha_element" -> "dom"
      [] sig.kind = "text_match" -> "text"
      [] OTHER -> "none"

Rank(probe) ==
    CASE probe = "url" -> 1
      [] probe = "shadow" -> 2
      [] probe = "dialog" -> 3
      [] probe = "dom" -> 4
      [] OTHER -> 5

\* the group of the highest-priority signal on the page
FirstSignal ==
    CASE HasUrlSignal -> "url"
      [] HasShadowSignal -> "shadow"
      [] HasDialogSignal -> "dialog"
      [] HasDomSignal -> "dom"
      [] HasTextSignal -> "text"
      [] OTHER -> "none"

ProbesRun == { detected.probes[i] : i \in 1..Len(detected.probes) }

\* C26: with phase "upload" detect_challenge does not evaluate the dialog check
\* and returns neither a dialog keyword match nor the unexpected-dialog
\* signal, whatever dialog is visible; with any other phase the dialog check
\* is evaluated whenever the URL and the shadow DOM gave no signal, and its
\* signal is the result
C26_UploadSkipsDialog ==
    detected # NotRun =>
        /\ phaseArg = "upload" =>
               /\ "dialog" \notin ProbesRun
               /\ detected.sig.kind \notin {"dialog_captcha", "unexpected_dialog_on_profile"}
        /\ (phaseArg # "upload" /\ pageState.url.ok /\ ~HasUrlSignal /\ ~HasShadowSignal) =>
               /\ "dialog" \in ProbesRun
               /\ dialog_check(pageState) # NoSignal =>
                      detected.sig = dialog_check(pageState)

\* phase "upload", on a profile, with a visible dialog that says "puzzle" and
\* has no login marker: no signal at all
C26_Witness ==
    /\ phaseArg = "upload"
    /\ dialog_check(pageState) = Signal("dialog_captcha", "puzzle")
    /\ "/@" \in pageState.url.tokens
    /\ detected # NotRun /\ detected.sig = NoSignal

\* a text that could not be read, taken as an empty one
Unmatched(text) == IF text.ok THEN text ELSE Text(<<>>, 0)

\* the page with every raising probe replaced by the same probe not matching:
\* a URL without a searched substring, a shadow-DOM query that finds nothing,
\* a hidden dialog, an invisible marker or selector, an empty text
NoMatchFor(page) ==
    [ page EXCEPT
        !.url = IF page.url.ok THEN @ ELSE PlainUrl,
        !.shadow = IF @ = -1 THEN 0 ELSE @,
        !.dialog = IF @ = "err" THEN "hidden" ELSE @,
        !.legitVisible = @ \ page.legitErr,
        !.legitErr = {},
        !.dialogText = Unmatched(@),
        !.dialogHtml = Unmatched(@),
        !.selVisible = @ \ page.selErr,
        !.selErr = {},
        !.errorPage = [@ EXCEPT !.text = Unmatched(@)],
        !.body = [@ EXCEPT !.text = Unmatched(@)] ]

\* C27: an error raised by a single probe counts as no match for that probe
\* only, so the result of detect_challenge is the result of a run on the same
\* page in which the raising probes had simply not matched
C27_ProbeErrorIsNoMatch ==
    detected # NotRun => detected.sig = detect_challenge(NoMatchFor(pageState), phaseArg)

\* the captcha counter as the bump step of this call left it
CountAfterBump ==
    callHist.captcha_count + (IF descriptor_has_captcha(challenge) THEN 1 ELSE 0)

\* C28: detect_challenge and attempt_solve_captcha leave the suspicion state
\* alone: after the initial detection the score and the counters are those of
\* the call's entry, and all through the solve attempt, with its detector
\* runs, they are what the handler's own bump step left
C28_DetectAndSolveKeepState ==
    /\ rate_limit_count = 0
    /\ pc = "capture" =>
           /\ challenge # NoSignal
           /\ suspicion_score = callHist.score
           /\ captcha_count = callHist.captcha_count
    /\ (InSolver \/ pc = "dismiss") =>
           /\ suspicion_score = Bumped
           /\ captcha_count = CountAfterBump

\* the rotation solver has made four drags, each followed by a detector run,
\* in a call that met a captcha dialog at score 2.5
C28_Witness ==
    /\ pc = "refind" /\ solver = "rotation" /\ drags = 4
    /\ descriptor_has_captcha(challenge)
    /\ callHist.score = 25 /\ suspicion_score = 50
    /\ callHist.captcha_count = 1 /\ captcha_count = 2

\* the pointer events of a whole drag with n path moves, with or without the
\* overshoot: move to the start, press, n moves, then either nothing or a
\* move beyond the target and one back to it, then the release
FullDrag(n, overshoot) ==
    <<Event("move", "start"), Event("down", "-")>>
        \o [i \in 1..n |-> Event("move", "path")]
        \o (IF overshoot THEN <<Event("move", "overshoot"), Event("move", "target")>>
            ELSE <<>>)
        \o <<Event("up", "-")>>

IsPrefix(a, b) == Len(a) <= Len(b) /\ a = SubSeq(b, 1, Len(a))

\* the number of path moves in use: the drawn `steps`, any number before that
StepChoices == IF mouse.steps = 0 THEN STEPS_MIN..STEPS_MAX ELSE {mouse.steps}

\* C29: the pointer events of a drag are, in this order: one move to the start
\* point, one press, 25 to 45 path moves, optionally a move beyond the target
\* followed by a move back to it, one release. Whatever was issued so far
\* begins such a sequence, a drag that has ended without an error has issued
\* all of it, and nothing follows the release
C29_DragEventOrder ==
    /\ mouse.steps = 0 \/ mouse.steps \in 25..45
    /\ \E n \in StepChoices, o \in BOOLEAN : IsPrefix(mouse.events, FullDrag(n, o))
    /\ mouse.pc = "done" =>
           \E n \in StepChoices, o \in BOOLEAN : mouse.events = FullDrag(n, o)
    /\ \A i \in 1..Len(mouse.events) :
           mouse.events[i].op = "up" => (i = Len(mouse.events) /\ mouse.pc = "done")

\* a finished drag of 45 path moves with the overshoot: 50 events, the last
\* three being the move beyond the target, the move back and the release
C29_Witness ==
    /\ mouse.pc = "done" /\ mouse.steps = 45
    /\ Len(mouse.events) = 50
    /\ mouse.events[48] = Event("move", "overshoot")
    /\ mouse.events[49] = Event("move", "target")
    /\ mouse.events[50] = Event("up", "-")

\* C30: no operation lowers or resets captcha_count or rate_limit_count, and
\* the start of a session leaves the score and both counters as the session
\* before left them
C30_StateCarriesOver ==
    [][/\ captcha_count' >= captcha_count
       /\ rate_limit_count' >= rate_limit_count
       /\ (session.pc = "idle" /\ session'.pc # "idle") =>
              /\ suspicion_score' = suspicion_score
              /\ captcha_count' = captcha_count
              /\ rate_limit_count' = rate_limit_count]_vars

\* the second session has started with the score and the captcha count the
\* first one left
C30_Witness ==
    /\ session.n = 2 /\ session.pc = "upload"
    /\ suspicion_score = 75 /\ captcha_count = 3
\* the keyword tests of attempt_solve_captcha on a body text
HasRotationKeyword(t) ==
    t.ok /\ (Contains(<<"fit", "the", "puzzle">>, t.words) \/ Contains(<<"rotate">>, t.words))

HasJigsawKeyword(t) ==
    t.ok /\ (Contains(<<"drag", "the", "puzzle", "piece">>, t.words)
             \/ Contains(<<"slide">>, t.words))

\* the type each readable or unreadable text stands for: rotation keywords
\* first, then jigsaw keywords, else unknown
TypeAsSpecified ==
    \A t \in SolverTexts :
        puzzle_type(t) = IF HasRotationKeyword(t) THEN "rotation"
                         ELSE IF HasJigsawKeyword(t) THEN "jigsaw" ELSE "unknown"

\* C31: attempt_solve_captcha starts the solver its reading of the text names
\* (rotation for rotation keywords, also beside jigsaw keywords; jigsaw for
\* jigsaw keywords; rotation when there is no keyword or no text), and the only
\* change of solver within a call is from the rotation solver to the jigsaw
\* solver, with an unknown type, when the rotation solver returned False
C31_OneSolverPerType ==
    [][/\ TypeAsSpecified
       /\ (pc = "solve" /\ pc' # "solve") =>
              /\ ptype' \in {puzzle_type(t) : t \in SolverTexts}
              /\ solver' = IF ptype' = "jigsaw" THEN "jigsaw" ELSE "rotation"
       /\ (solver # "none" /\ solver' # "none" /\ solver' # solver) =>
              /\ ptype = "unknown" /\ ptype' = "unknown"
              /\ solver = "rotation" /\ solver' = "jigsaw"
              /\ pc \in {"track", "refind"} /\ pc' = "track"
              /\ ret = "none" /\ ret' = "none" /\ lastErr' = "none"
              /\ drags' = 0
       /\ (ptype # "none" /\ ptype' # "none") => ptype' = ptype]_vars

\* no keyword in the text: the rotation solver used up its six attempts, the
\* jigsaw solver runs and is about to make its first drag
C31_Witness ==
    /\ pc = "drag" /\ ptype = "unknown" /\ solver = "jigsaw" /\ idx = 1 /\ drags = 0
    /\ callHist.lost = "none" /\ "drag" \in callHist.effects

\* the workers whose call has written its result
Finished == { n \in DOMAIN workers.w : workers.w[n].pc = "done" }

\* the scores the calls of the workers in S give when they run one after the
\* other, in any order, from `score`
RECURSIVE SeqFrom(_, _)
SeqFrom(score, S) ==
    IF S = {} THEN {score}
    ELSE UNION { SeqFrom(apply_op(workers.w[n], score), S \ {n}) : n \in S }

C33_RechecksKeepPhase ==
    (phaseArg = "upload" /\ pc \in {"refind", "backoff"}) =>
        detect_challenge(pageState, phaseArg) # NoSignal

\* the pointer events of one kind issued so far
Issued(op) == Cardinality({ i \in 1..Len(mouse.events) : mouse.events[i].op = op })

\* C34: when the drag is over, by its return or by an exception that leaves
\* _human_drag_slider (no caller below attempt_solve_captcha's except catches
\* it, and that except issues no pointer event), every press was followed by
\* a release
C34_ButtonReleased ==
    mouse.pc \in {"done", "raised"} => Issued("down") = Issued("up")

\* the decay of the call's exit: 1.5 when solved, 1.0 when dismissed, none
\* after the backoff
ExitDecay ==
    CASE callHist.exit = "solved" -> 15
      [] callHist.exit = "dismissed" -> 10
      [] OTHER -> 0

\* C35 as claimed: a call that detected a challenge never returns with a score
\* below the score at its entry
C35_Original ==
    (pc = "done" /\ ret = "true") => suspicion_score >= callHist.score

\* C35 as amended: the call returns with min(entry + 2.5, 10) less the decay of
\* its exit; that is at least the entry score after the backoff, for a solved
\* call entered at 8.5 or less and for a dismissed call entered at 9.0 or less,
\* and is 8.5 resp. 9.0, below the entry score, for higher entry scores
C35_Amended ==
    (pc = "done" /\ ret = "true") =>
        /\ suspicion_score = Min(callHist.score + 25, MAX_SCORE) - ExitDecay
        /\ callHist.score <= MAX_SCORE - ExitDecay => suspicion_score >= callHist.score
        /\ callHist.score > MAX_SCORE - ExitDecay =>
               (suspicion_score = MAX_SCORE - ExitDecay /\ suspicion_score < callHist.score)

\* a call entered at 10.0 whose first drag solved the challenge returns at 8.5
C35_Witness ==
    /\ pc = "done" /\ ret = "true" /\ callHist.exit = "solved"
    /\ callHist.score = MAX_SCORE /\ suspicion_score = 85

\* C36 as claimed: after 50 consecutive clean calls, from whatever score, the
\* score is 0; after that is_critical is false
C36_Original ==
    calls >= 50 => (double_score = Zero /\ ~is_critical_double(double_score))

\* C36 as amended: the score is 0 after 51 consecutive clean calls and stays
\* 0; after 50 it is 0 or a rounding residue below 2^-48 (in exact tenths it
\* would be 0); is_critical is false from the 21st clean call on
C36_Amended ==
    /\ calls >= 51 => double_score = Zero
    /\ calls >= 50 => (suspicion_score = 0 /\ double_score.hi = 0 /\ double_score.lo < 128)
    /\ calls >= 21 => (~is_critical_double(double_score) /\ ~is_critical(suspicion_score))

\* fifty clean calls after 10.0: the double holds 74 * 2^-55, about 2.05e-15
C36_Witness ==
    /\ calls = 50 /\ double_score = [hi |-> 0, lo |-> 74] /\ suspicion_score = 0

\* the most drags the call can have made so far: those of the running solver,
\* and the rotation solver's whole allowance once the jigsaw solver runs after it
DragsAtMost ==
    drags + (IF solver = "jigsaw" /\ ptype = "unknown" THEN ROTATION_CAP ELSE 0)

\* the call is past its solve attempt
PastSolver == pc \in {"dismiss", "recheck", "backoff", "goto", "done"}

\* C37: the rotation solver drags at most 6 times and the jigsaw solver at most
\* 5 times; the count of the running solver only grows by one per drag and
\* starts again only when the solve attempt starts, when the jigsaw solver
\* takes over from a failed rotation solver (unknown type), and on return, so
\* one call makes at most 11 drags; the solve attempt is entered once, after
\* the bump, and never again after the dismissal or during the backoff
C37_DragsPerCall ==
    [][/\ drags <= attempt_cap(solver) /\ DragsAtMost <= ROTATION_CAP + JIGSAW_CAP
       /\ drags' # drags =>
              \/ pc = "drag" /\ drags' = drags + 1
              \/ drags' = 0 /\ pc = "solve"
              \/ drags' = 0 /\ pc = "done"
              \/ /\ drags' = 0 /\ pc \in {"track", "refind"}
                 /\ solver = "rotation" /\ solver' = "jigsaw" /\ ptype = "unknown"
       /\ pc' = "solve" => (pc = "bump" /\ callHist.effects = {})
       /\ PastSolver => (pc' \notin {"solve"} /\ ~InSolver')
       /\ (solver = "jigsaw" /\ solver' # solver) => pc = "done"]_vars

\* unknown puzzle type: after the rotation solver the jigsaw solver has made
\* its fifth and last drag, which the verification rejected
C37_Witness ==
    /\ pc = "refind" /\ ptype = "unknown" /\ solver = "jigsaw"
    /\ drags = JIGSAW_CAP /\ idx = JIGSAW_CAP /\ DragsAtMost = 11
    /\ callHist.lost = "none"

\* C38: no step of handle_challenge writes rate_limit_count: it is 0 in every
\* state, also while and after a challenge reported as the text match "too
\* many requests" or "rate limit" is handled
C38_RateLimitCountUnused == rate_limit_count = 0

\* a call that detected "too many requests" in the body has gone through the
\* backoff and is about to return True
C38_Witness ==
    /\ pc = "done" /\ ret = "true"
    /\ challenge = Signal("text_match", "too many requests")
    /\ "pause" \in callHist.effects
    /\ rate_limit_count = 0 /\ captcha_count = callHist.captcha_count

\* C39: for a box of the selector path and a fraction in [0, 1], the drag
\* starts inside the track, does not end left of its start and does not end
\* beyond the track's right edge
C39_DragInsideTrack ==
    Len(mouse.events) >= 1 =>
        /\ mouse.fraction \in 0..FRAC_ONE /\ selector_accepts(mouse.box)
        /\ mouse.box.x * FRAC_ONE <= start_x(mouse.box)
        /\ start_x(mouse.box) <= end_x(mouse.box, mouse.fraction)
        /\ end_x(mouse.box, mouse.fraction) <= (mouse.box.x + mouse.box.width) * FRAC_ONE

=============================================================================
